---- MODULE Spec2Model ----
(***************************************************************************)
(* A model of the task store of tltd (src/src/models.py): Task objects on  *)
(* a heap, TodoData.baskets (an insertion-ordered dict of root lists), the *)
(* id -> Task index, and the store operations add_task, find_task,         *)
(* find_task_location, move_task, delete_task, get_basket_count, to_dict   *)
(* and from_dict.                                                          *)
(*                                                                         *)
(* Python objects are references: a Task is a heap cell named by a         *)
(* reference (1..MaxTasks), and lists hold references.  A task id is a     *)
(* field of the cell.  None is 0; an operation that would raise yields     *)
(* Raised.                                                                 *)
(***************************************************************************)
EXTENDS Integers, Sequences, FiniteSets, TLC

\* Bound: the number of Task objects alive at once.
MaxTasks == 2

\* Python's None (an absent id, an absent Task).
None == 0

\* An exception leaving a call (KeyError, RecursionError).
Raised == -1

\* Task ids (uuid strings in the program) and an id no task ever has.
Ids == 1..MaxTasks
NonExistent == MaxTasks + 1

MAX_NESTING_DEPTH == 8

\* The tasks of the deepest file the model loads: a chain nested as deep as
\* MAX_NESTING_DEPTH allows, and a sibling of its last task.
NestTasks == MAX_NESTING_DEPTH + 2

\* Recursion budget: an acyclic path visits at most MaxTasks objects, or
\* NestTasks in that file, so only a walk around a cycle exhausts it
\* (Python's RecursionError).
Fuel == (IF MaxTasks > NestTasks THEN MaxTasks ELSE NestTasks) + 1

-----------------------------------------------------------------------------
\* Basket keys

FIXED_BASKETS == <<"Inbox", "Later">>

LEGACY_DAY_BASKETS ==
  <<"Monday", "Tuesday", "Wednesday", "Thursday", "Friday", "Saturday", "Sunday">>

\* get_current_week_dates() at the modelled instant (a week starting Monday
\* 2024-01-01).
get_current_week_dates ==
  <<"2024-01-01", "2024-01-02", "2024-01-03", "2024-01-04",
    "2024-01-05", "2024-01-06", "2024-01-07">>

\* A date key outside the current week, and a key that is no basket.
OtherWeekDate == "2023-12-25"
InvalidBasket == "InvalidBasket"

Range(s) == {s[i] : i \in DOMAIN s}

DateChars(y, m, d) == y \o <<"-">> \o m \o <<"-">> \o d

\* The characters of each key string the model uses.
KeyChars(key) ==
  CASE key = "Inbox" -> <<"I", "n", "b", "o", "x">>
    [] key = "Later" -> <<"L", "a", "t", "e", "r">>
    [] key = "InvalidBasket" ->
         <<"I", "n", "v", "a", "l", "i", "d", "B", "a", "s", "k", "e", "t">>
    [] key = "Monday" -> <<"M", "o", "n", "d", "a", "y">>
    [] key = "Tuesday" -> <<"T", "u", "e", "s", "d", "a", "y">>
    [] key = "Wednesday" -> <<"W", "e", "d", "n", "e", "s", "d", "a", "y">>
    [] key = "Thursday" -> <<"T", "h", "u", "r", "s", "d", "a", "y">>
    [] key = "Friday" -> <<"F", "r", "i", "d", "a", "y">>
    [] key = "Saturday" -> <<"S", "a", "t", "u", "r", "d", "a", "y">>
    [] key = "Sunday" -> <<"S", "u", "n", "d", "a", "y">>
    [] key = "2023-12-25" ->
         DateChars(<<"2", "0", "2", "3">>, <<"1", "2">>, <<"2", "5">>)
    [] key = "2024-01-01" ->
         DateChars(<<"2", "0", "2", "4">>, <<"0", "1">>, <<"0", "1">>)
    [] key = "2024-01-02" ->
         DateChars(<<"2", "0", "2", "4">>, <<"0", "1">>, <<"0", "2">>)
    [] key = "2024-01-03" ->
         DateChars(<<"2", "0", "2", "4">>, <<"0", "1">>, <<"0", "3">>)
    [] key = "2024-01-04" ->
         DateChars(<<"2", "0", "2", "4">>, <<"0", "1">>, <<"0", "4">>)
    [] key = "2024-01-05" ->
         DateChars(<<"2", "0", "2", "4">>, <<"0", "1">>, <<"0", "5">>)
    [] key = "2024-01-06" ->
         DateChars(<<"2", "0", "2", "4">>, <<"0", "1">>, <<"0", "6">>)
    [] key = "2024-01-07" ->
         DateChars(<<"2", "0", "2", "4">>, <<"0", "1">>, <<"0", "7">>)
    [] key = "2023-12-26" ->
         DateChars(<<"2", "0", "2", "3">>, <<"1", "2">>, <<"2", "6">>)
    [] key = "2024-1-01" ->
         DateChars(<<"2", "0", "2", "4">>, <<"1">>, <<"0", "1">>)
    [] key = "2024-01-01\n" ->
         DateChars(<<"2", "0", "2", "4">>, <<"0", "1">>, <<"0", "1">>) \o <<"\n">>
    [] key = "inbox" -> <<"i", "n", "b", "o", "x">>
    [] key = "" -> <<>>

Digits == {"0", "1", "2", "3", "4", "5", "6", "7", "8", "9"}

\* re.match(r'^\d{4}-\d{2}-\d{2}$', key).  Without re.MULTILINE, $ matches at
\* the end of the string and also just before a newline that ends it.
is_date_basket(key) ==
  LET whole == KeyChars(key)
      cs == IF Len(whole) = 11 /\ whole[11] = "\n" THEN SubSeq(whole, 1, 10) ELSE whole
  IN /\ Len(cs) = 10
     /\ \A i \in {1, 2, 3, 4, 6, 7, 9, 10} : cs[i] \in Digits
     /\ cs[5] = "-"
     /\ cs[8] = "-"

is_valid_basket(basket) ==
  basket \in Range(FIXED_BASKETS) \/ is_date_basket(basket)

-----------------------------------------------------------------------------
\* The store.  baskets maps each key of the dict to its root list; keys is
\* the dict's key order (insertion order); heap holds the Task objects;
\* index is _task_index; last records the last call and what it returned.

VARIABLES baskets, keys, heap, index, last

\* The application around the store (src/src/app.py, src/src/storage.py):
\* history is TodoApp.history, the undo snapshots, oldest first; file is the
\* content of the tasks file and tmp that of its temporary sibling; pc is
\* where StorageManager.save stands; faults counts the calls of save_data
\* whose save has ended in an OSError since the last one that did not; backup
\* is the content of the .json.backup sibling; now is datetime.now(), the
\* local day (counted from Monday 2023-12-18) and hour.
VARIABLES history, file, tmp, pc, faults, backup, now

appVars == <<history, file, tmp, pc, faults, backup, now>>

vars ==
  <<baskets, keys, heap, index, last, history, file, tmp, pc, faults, backup,
    now>>

\* The instant the calls on the store are made at: Wednesday 2024-01-03,
\* 12 o'clock.
Instant == [day |-> 16, hour |-> 12]

\* The saves of handlers the model lets fail one after the other.
MaxFaults == 0

\* What a file holds: nothing (no such file), the beginning of a document,
\* a whole document, or a JSON value that is no object (NotAnObject).
Absent == [kind |-> "absent", data |-> <<>>]
Partial == [kind |-> "partial", data |-> <<>>]
NotAnObject == [kind |-> "other", data |-> <<>>]
Complete(data) == [kind |-> "complete", data |-> data]

\* The application before its first action: no snapshot, no file, no save
\* under way.
AppInit ==
  /\ history = <<>>
  /\ file = Absent
  /\ tmp = Absent
  /\ pc = "idle"
  /\ faults = 0
  /\ backup = Absent
  /\ now = Instant

\* The store as one value, for the operators below.
Store == [baskets |-> baskets, keys |-> keys, heap |-> heap, index |-> index]

-----------------------------------------------------------------------------
\* Task (objects on the heap)

\* A Task record as Task.__init__ leaves it.
Task(id, completed, children) ==
  [id |-> id, completed |-> completed, children |-> children]

\* The reference a new object gets.
NewRef(h) == CHOOSE r \in 1..(Cardinality(DOMAIN h) + 1) : r \notin DOMAIN h

\* Task.add_child: self.children.append(task)
add_child(h, self, task) ==
  [h EXCEPT ![self].children = Append(@, task)]

\* The first position of a child with this id, 0 if there is none.
ChildPos(h, self, task_id) ==
  LET hits == {i \in DOMAIN h[self].children : h[h[self].children[i]].id = task_id}
  IN IF hits = {} THEN 0 ELSE CHOOSE i \in hits : \A j \in hits : i <= j

RemoveAt(s, i) == SubSeq(s, 1, i - 1) \o SubSeq(s, i + 1, Len(s))

\* Task.remove_child: pops the first child with the id; the heap afterwards.
remove_child(h, self, task_id) ==
  LET i == ChildPos(h, self, task_id)
  IN IF i = 0 THEN h ELSE [h EXCEPT ![self].children = RemoveAt(@, i)]

\* Task.remove_child's return value.
remove_child_found(h, self, task_id) == ChildPos(h, self, task_id) # 0

\* Task.find_parent: depth first, the direct parent of the first node with
\* the id below self; None if there is none; Raised when the recursion does
\* not end.  scan_parent is the loop over self.children from position i.
RECURSIVE find_parent(_, _, _, _), scan_parent(_, _, _, _, _)
find_parent(h, self, task_id, fuel) ==
  IF fuel = 0 THEN Raised ELSE scan_parent(h, self, task_id, fuel, 1)
scan_parent(h, self, task_id, fuel, i) ==
  IF i > Len(h[self].children) THEN None
  ELSE LET child == h[self].children[i]
       IN IF h[child].id = task_id THEN self
          ELSE LET result == find_parent(h, child, task_id, fuel - 1)
               IN IF result # None THEN result
                  ELSE scan_parent(h, self, task_id, fuel, i + 1)

\* Filter a list of references: [t for t in tasks if t.id != task_id]
RECURSIVE WithoutId(_, _, _)
WithoutId(h, tasks, task_id) ==
  IF tasks = <<>> THEN <<>>
  ELSE IF h[Head(tasks)].id = task_id THEN WithoutId(h, Tail(tasks), task_id)
       ELSE <<Head(tasks)>> \o WithoutId(h, Tail(tasks), task_id)

-----------------------------------------------------------------------------
\* TodoData

\* TodoData.__init__: Inbox, the current week's dates, Later, all empty.
InitKeys == <<"Inbox">> \o get_current_week_dates \o <<"Later">>

EmptyIndex == [i \in {} |-> None]

\* A step on the index that raises leaves the index as far as it got; the
\* entry under Raised marks it.  A list read that raises yields RaisedList.
MarkRaised(idx) == (Raised :> Raised) @@ idx
HasRaised(idx) == Raised \in DOMAIN idx
RaisedList == <<Raised>>

\* TodoData.__init__ without the days of the week.
TodoDataFixedOnly ==
  [baskets |-> [k \in Range(FIXED_BASKETS) |-> <<>>], keys |-> FIXED_BASKETS,
   heap |-> [r \in {} |-> Task(None, FALSE, <<>>)], index |-> EmptyIndex]

\* TodoData.__init__: Inbox, the days of the current week, Later, all empty.
TodoData ==
  [baskets |-> [k \in Range(InitKeys) |-> <<>>], keys |-> InitKeys,
   heap |-> [r \in {} |-> Task(None, FALSE, <<>>)], index |-> EmptyIndex]

\* What a call hands back: the store it leaves, its return value, and
\* whether it raised instead of returning.
Returns(S, value) == [store |-> S, ret |-> value, raised |-> FALSE]
Raises(S) == [store |-> S, ret |-> FALSE, raised |-> TRUE]

\* self.baskets[basket] read: Raised for a key the dict lacks (KeyError).
BasketList(S, basket) ==
  IF basket \in DOMAIN S.baskets THEN S.baskets[basket] ELSE RaisedList

\* self.baskets[basket] = tasks: a new key goes to the end of the dict.
SetBasket(S, basket, tasks) ==
  IF basket \in DOMAIN S.baskets
    THEN [S EXCEPT !.baskets[basket] = tasks]
    ELSE [S EXCEPT !.baskets = (basket :> tasks) @@ S.baskets,
                   !.keys = Append(S.keys, basket)]

\* TodoData._ensure_basket_exists
ensure_basket_exists(S, basket) ==
  IF basket \notin DOMAIN S.baskets THEN SetBasket(S, basket, <<>>) ELSE S

\* dict.pop(key, None)
Pop(idx, id) == [i \in DOMAIN idx \ {id} |-> idx[i]]

\* A variant of _index_task_recursive that forgets the children.
index_task_only(idx, h, task, fuel) == (h[task].id :> task) @@ idx

\* TodoData._index_task_recursive: the index afterwards, Raised when the
\* recursion does not end.  index_children is the loop over task.children.
RECURSIVE index_task_recursive(_, _, _, _), index_children(_, _, _, _)
index_task_recursive(idx, h, task, fuel) ==
  IF fuel = 0 THEN MarkRaised(idx)
  ELSE index_children((h[task].id :> task) @@ idx, h, h[task].children, fuel - 1)
index_children(idx, h, children, fuel) ==
  IF children = <<>> THEN idx
  ELSE LET one == index_task_recursive(idx, h, Head(children), fuel)
       IN IF HasRaised(one) THEN one
          ELSE index_children(one, h, Tail(children), fuel)

\* TodoData._add_to_index
add_to_index(S, task) ==
  LET idx == index_task_recursive(S.index, S.heap, task, Fuel)
  IN IF HasRaised(idx) THEN Raises([S EXCEPT !.index = Pop(idx, Raised)])
     ELSE Returns([S EXCEPT !.index = idx], TRUE)

\* A variant of _remove_from_index that forgets the children.
remove_from_index_only(idx, h, task, fuel) == Pop(idx, h[task].id)

\* TodoData._remove_from_index
RECURSIVE remove_from_index(_, _, _, _), unindex_children(_, _, _, _)
remove_from_index(idx, h, task, fuel) ==
  IF fuel = 0 THEN MarkRaised(idx)
  ELSE unindex_children(Pop(idx, h[task].id), h, h[task].children, fuel - 1)
unindex_children(idx, h, children, fuel) ==
  IF children = <<>> THEN idx
  ELSE LET one == remove_from_index(idx, h, Head(children), fuel)
       IN IF HasRaised(one) THEN one
          ELSE unindex_children(one, h, Tail(children), fuel)

\* A variant of find_task that subscripts the index: self._task_index[task_id]
\* raises KeyError for an id the index lacks.
find_task_subscript(S, task_id) ==
  IF task_id \in DOMAIN S.index THEN S.index[task_id] ELSE Raised

\* TodoData.find_task: self._task_index.get(task_id)
find_task(S, task_id) ==
  IF task_id \in DOMAIN S.index THEN S.index[task_id] ELSE None

\* The root tasks in the order find_task_location meets them, each with the
\* key of its basket.
RECURSIVE RootsFrom(_, _)
RootsFrom(S, ks) ==
  IF ks = <<>> THEN <<>>
  ELSE [i \in DOMAIN S.baskets[Head(ks)] |->
          [basket |-> Head(ks), task |-> S.baskets[Head(ks)][i]]]
       \o RootsFrom(S, Tail(ks))

NoLocation == [kind |-> "none", basket |-> "", parent |-> None]
RaisedLocation == [kind |-> "raised", basket |-> "", parent |-> None]
Location(basket, parent_id) == [kind |-> "at", basket |-> basket, parent |-> parent_id]

\* TodoData.find_task_location: the loop over the roots.
RECURSIVE scan_location(_, _, _)
scan_location(S, roots, task_id) ==
  IF roots = <<>> THEN NoLocation
  ELSE LET task == Head(roots).task
       IN IF S.heap[task].id = task_id THEN Location(Head(roots).basket, None)
          ELSE LET parent == find_parent(S.heap, task, task_id, Fuel)
               IN IF parent = Raised THEN RaisedLocation
                  ELSE IF parent # None
                         THEN Location(Head(roots).basket, S.heap[parent].id)
                         ELSE scan_location(S, Tail(roots), task_id)

\* A variant of find_task_location that looks at the roots only.
find_root_location(S, task_id) ==
  LET roots == RootsFrom(S, S.keys)
      hits == {i \in DOMAIN roots : S.heap[roots[i].task].id = task_id}
  IN IF hits = {} THEN NoLocation
     ELSE Location(roots[CHOOSE i \in hits : \A j \in hits : i <= j].basket, None)

find_task_location(S, task_id) == scan_location(S, RootsFrom(S, S.keys), task_id)

\* TodoData.add_task
add_task(S, basket, task, parent_id) ==
  IF ~is_valid_basket(basket) THEN Returns(S, FALSE)
  ELSE LET S1 == ensure_basket_exists(S, basket)
       IN IF parent_id # None
            THEN LET parent == find_task(S1, parent_id)
                 IN IF parent = Raised THEN Raises(S1)
                    ELSE IF parent # None
                      THEN add_to_index(
                             [S1 EXCEPT !.heap = add_child(@, parent, task)], task)
                      ELSE Returns(S1, FALSE)
            ELSE IF BasketList(S1, basket) = RaisedList THEN Raises(S1)
                 ELSE add_to_index(
                        SetBasket(S1, basket, Append(S1.baskets[basket], task)), task)

\* A variant of the removal that removes nothing.
DetachNothing(S, task_id, location) == Returns(S, TRUE)

\* move_task, "Remove from current location": the store afterwards; the
\* raised field is set when a lookup raises.
Detach(S, task_id, location) ==
  IF location.parent # None
    THEN LET parent == find_task(S, location.parent)
         IN IF parent = Raised THEN Raises(S)
            ELSE IF parent # None
              THEN Returns([S EXCEPT !.heap = remove_child(@, parent, task_id)], TRUE)
              ELSE Returns(S, TRUE)
    ELSE IF BasketList(S, location.basket) = RaisedList THEN Raises(S)
         ELSE Returns(SetBasket(S, location.basket,
                        WithoutId(S.heap, S.baskets[location.basket], task_id)), TRUE)

\* A variant of the insertion that puts the task first instead of last.
AttachFirst(S, task, to_basket, to_parent_id) ==
  IF to_parent_id # None
    THEN LET new_parent == find_task(S, to_parent_id)
         IN IF new_parent = Raised THEN Raises(S)
            ELSE IF new_parent # None
              THEN Returns([S EXCEPT !.heap[new_parent].children = <<task>> \o @], TRUE)
              ELSE Returns(S, FALSE)
    ELSE IF BasketList(S, to_basket) = RaisedList THEN Raises(S)
         ELSE Returns(SetBasket(S, to_basket, <<task>> \o S.baskets[to_basket]), TRUE)

\* move_task, "Add to new location".
Attach(S, task, to_basket, to_parent_id) ==
  IF to_parent_id # None
    THEN LET new_parent == find_task(S, to_parent_id)
         IN IF new_parent = Raised THEN Raises(S)
            ELSE IF new_parent # None
              THEN Returns([S EXCEPT !.heap = add_child(@, new_parent, task)], TRUE)
              ELSE Returns(S, FALSE)
    ELSE IF BasketList(S, to_basket) = RaisedList THEN Raises(S)
         ELSE Returns(SetBasket(S, to_basket, Append(S.baskets[to_basket], task)), TRUE)

\* TodoData.move_task
move_task(S, task_id, to_basket, to_parent_id) ==
  IF ~is_valid_basket(to_basket) THEN Returns(S, FALSE)
  ELSE LET S1 == ensure_basket_exists(S, to_basket)
           location == find_task_location(S1, task_id)
           task == find_task(S1, task_id)
       IN IF location.kind = "raised" THEN Raises(S1)
          ELSE IF location.kind = "none" THEN Returns(S1, FALSE)
          ELSE IF task = Raised THEN Raises(S1)
          ELSE IF task = None THEN Returns(S1, FALSE)
          ELSE LET detached == Detach(S1, task_id, location)
               IN IF detached.raised THEN detached
                  ELSE Attach(detached.store, task, to_basket, to_parent_id)

\* TodoData.delete_task
delete_task(S, task_id) ==
  LET task == find_task(S, task_id)
      location == find_task_location(S, task_id)
  IN IF task = Raised THEN Raises(S)
     ELSE IF task = None THEN Returns(S, FALSE)
     ELSE IF location.kind = "raised" THEN Raises(S)
     ELSE IF location.kind = "none" THEN Returns(S, FALSE)
     ELSE LET idx == remove_from_index(S.index, S.heap, task, Fuel)
              S1 == [S EXCEPT !.index = Pop(idx, Raised)]
          IN IF HasRaised(idx) THEN Raises(S1)
             ELSE IF location.parent # None
               THEN LET parent == find_task(S1, location.parent)
                    IN IF parent = Raised THEN Raises(S1)
                       ELSE IF parent # None
                         THEN Returns(
                                [S1 EXCEPT !.heap = remove_child(@, parent, task_id)],
                                remove_child_found(S1.heap, parent, task_id))
                         ELSE Returns(S1, FALSE)
               ELSE IF BasketList(S1, location.basket) = RaisedList THEN Raises(S1)
                    ELSE Returns(SetBasket(S1, location.basket,
                           WithoutId(S1.heap, S1.baskets[location.basket], task_id)), TRUE)

\* TodoData.get_basket_count: count_tasks; Raised when the recursion does
\* not end.
RECURSIVE count_tasks(_, _, _, _)
count_tasks(h, tasks, include_completed, fuel) ==
  IF fuel = 0 THEN Raised
  ELSE IF tasks = <<>> THEN 0
  ELSE LET task == Head(tasks)
           counted == include_completed \/ ~h[task].completed
           below == IF counted
                      THEN count_tasks(h, h[task].children, include_completed, fuel - 1)
                      ELSE 0
           rest == count_tasks(h, Tail(tasks), include_completed, fuel)
       IN IF below = Raised \/ rest = Raised THEN Raised
          ELSE (IF counted THEN 1 ELSE 0) + below + rest

get_basket_count(S, basket, include_completed) ==
  IF basket \notin DOMAIN S.baskets THEN 0
  ELSE count_tasks(S.heap, S.baskets[basket], include_completed, Fuel)

-----------------------------------------------------------------------------
\* Serialization.  A document is the dict to_dict builds: a sequence of
\* [key, tasks] entries in key order, each task a record with its children
\* as documents.

TaskDoc(id, completed, children) ==
  [id |-> id, completed |-> completed, children |-> children]

\* Task.to_dict; a record with id Raised when the recursion does not end.
RECURSIVE task_to_dict(_, _, _)
task_to_dict(h, task, fuel) ==
  IF fuel = 0 THEN TaskDoc(Raised, FALSE, <<>>)
  ELSE TaskDoc(h[task].id, h[task].completed,
               [i \in DOMAIN h[task].children |->
                  task_to_dict(h, h[task].children[i], fuel - 1)])

RECURSIVE DocRaised(_)
DocRaised(doc) ==
  doc.id = Raised \/ \E i \in DOMAIN doc.children : DocRaised(doc.children[i])

\* TodoData.to_dict
to_dict(S) ==
  [k \in DOMAIN S.keys |->
     [key |-> S.keys[k],
      tasks |-> [i \in DOMAIN S.baskets[S.keys[k]] |->
                   task_to_dict(S.heap, S.baskets[S.keys[k]][i], Fuel)]]]

ToDictRaised(data) ==
  \E k \in DOMAIN data : \E i \in DOMAIN data[k].tasks : DocRaised(data[k].tasks[i])

\* Task.from_dict: builds the children, then the Task; the heap afterwards
\* and the new object's reference.  tasks_from_dicts is the list
\* comprehension [Task.from_dict(d) for d in docs].
RECURSIVE task_from_dict(_, _), tasks_from_dicts(_, _)
task_from_dict(h, doc) ==
  LET children == tasks_from_dicts(h, doc.children)
      ref == NewRef(children.heap)
  IN [heap |-> (ref :> Task(doc.id, doc.completed, children.refs)) @@ children.heap,
      ref |-> ref]
tasks_from_dicts(h, docs) ==
  IF docs = <<>> THEN [heap |-> h, refs |-> <<>>]
  ELSE LET first == task_from_dict(h, Head(docs))
           rest == tasks_from_dicts(first.heap, Tail(docs))
       IN [heap |-> rest.heap, refs |-> <<first.ref>> \o rest.refs]

\* self.baskets[key] = [Task.from_dict(d) for d in docs]
LoadBasket(S, key, docs) ==
  LET built == tasks_from_dicts(S.heap, docs)
  IN SetBasket([S EXCEPT !.heap = built.heap], key, built.refs)

\* TodoData._rebuild_index: clear, then index every root of every basket in
\* key order.
RECURSIVE index_roots(_, _, _)
index_roots(idx, h, roots) ==
  IF roots = <<>> THEN idx
  ELSE LET one == index_task_recursive(idx, h, Head(roots).task, Fuel)
       IN IF HasRaised(one) THEN one ELSE index_roots(one, h, Tail(roots))

rebuild_index(S) ==
  [S EXCEPT !.index = index_roots(EmptyIndex, S.heap, RootsFrom(S, S.keys))]

DataHas(data, key) == \E k \in DOMAIN data : data[k].key = key
DataGet(data, key) == data[CHOOSE k \in DOMAIN data : data[k].key = key].tasks

\* from_dict, the migration loop from weekday i on.
RECURSIVE migrate_legacy_days(_, _, _)
migrate_legacy_days(S, data, i) ==
  IF i > Len(LEGACY_DAY_BASKETS) THEN S
  ELSE LET day_name == LEGACY_DAY_BASKETS[i]
       IN IF DataHas(data, day_name) /\ DataGet(data, day_name) # <<>>
            THEN migrate_legacy_days(
                   LoadBasket(ensure_basket_exists(S, get_current_week_dates[i]),
                              get_current_week_dates[i], DataGet(data, day_name)),
                   data, i + 1)
            ELSE migrate_legacy_days(S, data, i + 1)

\* from_dict, the loop over data.items() from entry k on.  A store always has
\* keys (TodoData.__init__ makes Inbox and Later); reading them at each entry
\* makes TLC build the store entry by entry instead of nesting the loads.
RECURSIVE load_items(_, _, _)
load_items(S, data, k) ==
  IF k > Len(data) \/ S.keys = <<>> THEN S
  ELSE LET basket == data[k].key
       IN IF basket \in Range(FIXED_BASKETS)
            THEN load_items(LoadBasket(S, basket, data[k].tasks), data, k + 1)
            ELSE IF is_date_basket(basket)
              THEN load_items(
                     LoadBasket(ensure_basket_exists(S, basket), basket, data[k].tasks),
                     data, k + 1)
              ELSE load_items(S, data, k + 1)

\* TodoData.from_dict
from_dict(data, migrate_legacy) ==
  LET has_legacy == \E k \in DOMAIN data : data[k].key \in Range(LEGACY_DAY_BASKETS)
      migrated == IF has_legacy /\ migrate_legacy
                    THEN migrate_legacy_days(TodoData, data, 1)
                    ELSE TodoData
  IN rebuild_index(load_items(migrated, data, 1))

-----------------------------------------------------------------------------
\* Objects no list and no index entry leads to are garbage, and a
\* reference's number is not observable: Collect drops the garbage and
\* numbers the live objects in the order a walk from the baskets, then from
\* the index, meets them.

RECURSIVE Visit(_, _, _), VisitAll(_, _, _)
Visit(h, seen, r) ==
  IF r \in Range(seen) THEN seen ELSE VisitAll(h, Append(seen, r), h[r].children)
VisitAll(h, seen, rs) ==
  IF rs = <<>> THEN seen ELSE VisitAll(h, Visit(h, seen, Head(rs)), Tail(rs))

RECURSIVE SortedSeq(_)
SortedSeq(set) ==
  IF set = {} THEN <<>>
  ELSE LET least == CHOOSE x \in set : \A y \in set : x <= y
       IN <<least>> \o SortedSeq(set \ {least})

Collect(S) ==
  LET roots == RootsFrom(S, S.keys)
      entries == SortedSeq(DOMAIN S.index)
      live == VisitAll(S.heap, <<>>,
                       [i \in DOMAIN roots |-> roots[i].task]
                       \o [i \in DOMAIN entries |-> S.index[entries[i]]])
      number == [r \in Range(live) |-> CHOOSE n \in DOMAIN live : live[n] = r]
      renumber(rs) == [i \in DOMAIN rs |-> number[rs[i]]]
  IN [baskets |-> [k \in DOMAIN S.baskets |-> renumber(S.baskets[k])],
      keys |-> S.keys,
      heap |-> [n \in DOMAIN live |->
                  [S.heap[live[n]] EXCEPT !.children = renumber(@)]],
      index |-> [id \in DOMAIN S.index |-> number[S.index[id]]]]

-----------------------------------------------------------------------------
\* The calls a client makes.

\* Destination keys the calls are made with: the fixed baskets, a date key
\* the store does not hold yet, and a key that is no basket.
BasketArgs == {"Inbox", "Later", OtherWeekDate, InvalidBasket}

\* The ids some live object or index entry carries.
KnownIds == {heap[r].id : r \in DOMAIN heap} \cup DOMAIN index

\* Task ids the calls are made with.
TaskArgs == KnownIds \cup {NonExistent}

\* Parent ids the calls are made with.
ParentArgs == {None} \cup TaskArgs

\* Task() gives every new task a uuid4 id: an id no task has.  Which one
\* is immaterial; the model takes the least ones.
FreshIds == Ids \ KnownIds

FreshId == CHOOSE id \in FreshIds : \A other \in FreshIds : id <= other

SecondFreshId ==
  CHOOSE id \in FreshIds \ {FreshId} : \A other \in FreshIds \ {FreshId} : id <= other

\* Task(title): a new task alone.
NewTask == TaskDoc(FreshId, FALSE, <<>>)

\* parent = Task(title); parent.add_child(Task(title)): with one new child.
NewTaskWithChild == TaskDoc(FreshId, FALSE, <<TaskDoc(SecondFreshId, FALSE, <<>>)>>)

\* The last call and how it ended.
Call(op, result) == [op |-> op, ret |-> result.ret, raised |-> result.raised]

\* The number of list slots the store's lists have: root lists and the
\* children lists of live objects.
RECURSIVE SumLen(_, _)
SumLen(f, dom) ==
  IF dom = {} THEN 0
  ELSE LET x == CHOOSE x \in dom : TRUE IN Len(f[x]) + SumLen(f, dom \ {x})

TotalSlots(S) ==
  SumLen(S.baskets, DOMAIN S.baskets)
  + SumLen([r \in DOMAIN S.heap |-> S.heap[r].children], DOMAIN S.heap)

BecomesStore(S) ==
  LET C == Collect(S)
  IN /\ baskets' = C.baskets
     /\ keys' = C.keys
     /\ heap' = C.heap
     /\ index' = C.index

\* A call made on the store alone: the application's state stays.
Becomes(S) ==
  /\ BecomesStore(S)
  /\ UNCHANGED appVars

\* The task is made first (Task(...), add_child), then handed to add_task.
AddTaskCall(S, basket, doc, parent_id) ==
  LET made == task_from_dict(S.heap, doc)
  IN add_task([S EXCEPT !.heap = made.heap], basket, made.ref, parent_id)

AddTask ==
  \E basket \in BasketArgs, parent_id \in ParentArgs :
    /\ Cardinality(DOMAIN heap) + 1 <= MaxTasks
    /\ LET result == AddTaskCall(Store, basket, NewTask, parent_id)
       IN /\ Becomes(result.store)
          /\ last' = Call("add_task", result)

AddTaskWithChild ==
  \E basket \in BasketArgs, parent_id \in ParentArgs :
    /\ Cardinality(DOMAIN heap) + 2 <= MaxTasks
    /\ LET result == AddTaskCall(Store, basket, NewTaskWithChild, parent_id)
       IN /\ Becomes(result.store)
          /\ last' = Call("add_task", result)

MoveTask ==
  \E task_id \in TaskArgs, to_basket \in BasketArgs, to_parent_id \in ParentArgs :
    LET result == move_task(Store, task_id, to_basket, to_parent_id)
    IN /\ Becomes(result.store)
       /\ last' = Call("move_task", result)

DeleteTask ==
  \E task_id \in TaskArgs :
    LET result == delete_task(Store, task_id)
    IN /\ Becomes(result.store)
       /\ last' = Call("delete_task", result)

\* TodoData.from_dict(todo_data.to_dict()): what undo and a save followed by
\* a load do.
LoadCall(S) ==
  LET data == to_dict(S)
  IN IF ToDictRaised(data) THEN Raises(S)
     ELSE LET loaded == from_dict(data, TRUE)
          IN IF HasRaised(loaded.index) THEN Raises(S) ELSE Returns(loaded, TRUE)

Load ==
  LET result == LoadCall(Store)
  IN /\ Becomes(result.store)
     /\ last' = Call("from_dict", result)

Init ==
  /\ baskets = Collect(TodoData).baskets
  /\ keys = Collect(TodoData).keys
  /\ heap = Collect(TodoData).heap
  /\ index = Collect(TodoData).index
  /\ last = Call("init", Returns(TodoData, TRUE))
  /\ AppInit

Next == AddTask \/ AddTaskWithChild \/ MoveTask \/ DeleteTask \/ Load

Spec == Init /\ [][Next]_vars

\* Clients that pass Task(title, task_id=...) with an id of their choosing,
\* which some task of the store may already have.
AddTaskAnyId ==
  \E basket \in BasketArgs, parent_id \in ParentArgs, id \in Ids :
    /\ Cardinality(DOMAIN heap) + 1 <= MaxTasks
    /\ LET result == AddTaskCall(Store, basket, TaskDoc(id, FALSE, <<>>), parent_id)
       IN /\ Becomes(result.store)
          /\ last' = Call("add_task", result)

AddTaskWithChildAnyId ==
  \E basket \in BasketArgs, parent_id \in ParentArgs, id \in Ids, child_id \in Ids :
    /\ Cardinality(DOMAIN heap) + 2 <= MaxTasks
    /\ LET result == AddTaskCall(Store, basket,
                       TaskDoc(id, FALSE, <<TaskDoc(child_id, FALSE, <<>>)>>), parent_id)
       IN /\ Becomes(result.store)
          /\ last' = Call("add_task", result)

\* With equal ids a move can leave one object in several slots, and lists
\* then grow without end: the runs are cut where the lists have more than
\* MaxTasks slots.  (With new ids only, no list outgrows the number of
\* tasks: SlotsBoundedByTasks.)
WithinBounds == TotalSlots(Store) <= MaxTasks

SlotsBoundedByTasks == TotalSlots(Store) <= Cardinality(DOMAIN heap)

NextAnyId ==
  \/ AddTaskAnyId /\ WithinBounds'
  \/ AddTaskWithChildAnyId /\ WithinBounds'
  \/ MoveTask /\ WithinBounds'
  \/ DeleteTask /\ WithinBounds'
  \/ Load /\ WithinBounds'

SpecAnyId == Init /\ [][NextAnyId]_vars

-----------------------------------------------------------------------------
\* What the properties speak of: the structure a walk from the baskets
\* meets.

RootSeq(S) == [i \in DOMAIN RootsFrom(S, S.keys) |-> RootsFrom(S, S.keys)[i].task]

\* The objects reachable from the baskets, in depth-first order.
ReachableSeq(S) == VisitAll(S.heap, <<>>, RootSeq(S))
Reachable(S) == Range(ReachableSeq(S))
ReachableIds(S) == {S.heap[r].id : r \in Reachable(S)}

\* The objects below a task.
Descendants(S, r) == Range(VisitAll(S.heap, <<>>, S.heap[r].children))

\* How many places hold a reference to r: slots of root lists, and slots of
\* the children lists of reachable tasks.
RootSlots(S, r) ==
  {<<k, i>> : k \in DOMAIN S.keys, i \in 1..MaxTasks} \cap
  {ki \in (DOMAIN S.keys) \X (1..MaxTasks) :
     /\ ki[2] \in DOMAIN S.baskets[S.keys[ki[1]]]
     /\ S.baskets[S.keys[ki[1]]][ki[2]] = r}
ChildSlots(S, r) ==
  {pi \in Reachable(S) \X (1..MaxTasks) :
     /\ pi[2] \in DOMAIN S.heap[pi[1]].children
     /\ S.heap[pi[1]].children[pi[2]] = r}
Occurrences(S, r) == Cardinality(RootSlots(S, r)) + Cardinality(ChildSlots(S, r))

\* The first reachable object with the id, in the order of a manual walk of
\* the baskets (None if there is none).
WalkFind(S, id) ==
  LET hits == {n \in DOMAIN ReachableSeq(S) : S.heap[ReachableSeq(S)[n]].id = id}
  IN IF hits = {} THEN None
     ELSE ReachableSeq(S)[CHOOSE n \in hits : \A m \in hits : n <= m]

IsForest(S) ==
  /\ \A r \in Reachable(S) : Occurrences(S, r) = 1
  /\ \A r \in Reachable(S) : r \notin Descendants(S, r)

-----------------------------------------------------------------------------
\* C1: after any sequence of add_task, delete_task, move_task and load, the
\* ids in the index are exactly the ids of the tasks reachable from the
\* baskets, and find_task(id) is the task a walk of the baskets finds.
IndexMatchesBaskets ==
  /\ DOMAIN index = ReachableIds(Store)
  /\ \A id \in DOMAIN index \cup ReachableIds(Store) :
       find_task(Store, id) = WalkFind(Store, id)

\* C2: a move_task that returns False leaves baskets, their keys, the tasks
\* and the index as they were.
FailedMoveChangesNothing ==
  [][(last'.op = "move_task" /\ ~last'.ret /\ ~last'.raised)
       => UNCHANGED <<baskets, keys, heap, index>>]_vars

\* C3: the structure reachable from the baskets is a forest: every reachable
\* task is held by exactly one slot (of a root list or of a children list)
\* and none is its own descendant.
BasketsAreForest == IsForest(Store)

\* C3's case: a move_task under the moved task itself has returned True, the
\* task now being its own child, while the baskets hold another task.
MovedUnderItself ==
  /\ last.op = "move_task" /\ last.ret
  /\ \E r \in DOMAIN heap : r \in Range(heap[r].children)
  /\ Reachable(Store) # {}

\* A list of references without the reference r.
RECURSIVE WithoutRef(_, _)
WithoutRef(tasks, r) ==
  IF tasks = <<>> THEN <<>>
  ELSE IF Head(tasks) = r THEN WithoutRef(Tail(tasks), r)
       ELSE <<Head(tasks)>> \o WithoutRef(Tail(tasks), r)

\* Every list of T is the list of S without r, but that `basket` also ends
\* with the extra references; no key but `basket` is new, and the tasks'
\* other fields are the same.
ListsAre(S, T, r, basket, extra) ==
  /\ DOMAIN T.baskets = DOMAIN S.baskets \cup (IF extra = <<>> THEN {} ELSE {basket})
  /\ \A k \in DOMAIN T.baskets :
       T.baskets[k] =
         (IF k \in DOMAIN S.baskets THEN WithoutRef(S.baskets[k], r) ELSE <<>>)
         \o (IF k = basket THEN extra ELSE <<>>)
  /\ \A p \in DOMAIN S.heap :
       T.heap[p] = [S.heap[p] EXCEPT !.children = WithoutRef(@, r)]

\* The ids of a task and of everything below it.
SubtreeIds(S, r) == {S.heap[d].id : d \in {r} \cup Descendants(S, r)}

\* C4: no two distinct tasks reachable from the baskets have the same id,
\* also when add_task is handed a task whose id, or whose child's id, a task
\* of the store already has.
ReachableIdsAreUnique ==
  \A r1 \in Reachable(Store), r2 \in Reachable(Store) :
    heap[r1].id = heap[r2].id => r1 = r2

\* C5: delete_task of a task reachable from the baskets returns True, makes
\* find_task None for the task's id and each descendant's, takes the task out
\* of the one list that held it, and leaves every other task findable where
\* it was; for an id with no task in the baskets it returns False and the
\* store is as before.
DeleteRemovesSubtree ==
  \A task_id \in TaskArgs :
    LET r == delete_task(Store, task_id)
        task == WalkFind(Store, task_id)
    IN IF task_id \in ReachableIds(Store)
         THEN /\ r.ret /\ ~r.raised
              /\ \A id \in SubtreeIds(Store, task) : find_task(r.store, id) = None
              /\ ListsAre(Store, r.store, task, "", <<>>)
              /\ r.store.keys = keys
              /\ \A id \in DOMAIN index \ SubtreeIds(Store, task) :
                   /\ find_task(r.store, id) = find_task(Store, id)
                   /\ find_task_location(r.store, id) = find_task_location(Store, id)
         ELSE ~r.ret /\ ~r.raised /\ r.store = Store

\* C5's case: a task with a child is deleted, and its id and its child's (two
\* ids) are no longer found.
DeletesTaskWithChild ==
  \E task_id \in ReachableIds(Store) :
    LET r == delete_task(Store, task_id)
        task == WalkFind(Store, task_id)
    IN /\ heap[task].children # <<>>
       /\ r.ret
       /\ \A id \in SubtreeIds(Store, task) : find_task(r.store, id) = None
       /\ Cardinality(DOMAIN r.store.index) + 2 = Cardinality(DOMAIN index)

\* C6: a move_task(id, to_basket) that returns True leaves the task as the
\* last root of to_basket, held by no other slot (the list it came from is
\* the old list without it), with its subtree as it was.
MoveToBasketAppends ==
  \A task_id \in TaskArgs, to_basket \in BasketArgs :
    LET r == move_task(Store, task_id, to_basket, None)
        task == find_task(Store, task_id)
    IN (r.ret /\ ~r.raised) =>
         /\ task # None
         /\ r.store.heap[task].id = task_id
         /\ r.store.baskets[to_basket] # <<>>
         /\ r.store.baskets[to_basket][Len(r.store.baskets[to_basket])] = task
         /\ Occurrences(r.store, task) = 1
         /\ ListsAre(Store, r.store, task, to_basket, <<task>>)
         /\ task_to_dict(r.store.heap, task, Fuel) = task_to_dict(heap, task, Fuel)
         /\ r.store.index = index

\* C6's case: a root of Inbox that has a child is moved to Later; it is
\* Later's last root, no longer in Inbox, and keeps its child.
MovesParentToOtherBasket ==
  \E task \in Range(baskets["Inbox"]) :
    LET r == move_task(Store, heap[task].id, "Later", None)
    IN /\ heap[task].children # <<>>
       /\ r.ret
       /\ r.store.baskets["Later"] = Append(baskets["Later"], task)
       /\ task \notin Range(r.store.baskets["Inbox"])
       /\ r.store.heap[task].children = heap[task].children

\* The reachable task whose children list holds r (None for a root).
ParentOf(S, r) ==
  IF \E p \in Reachable(S) : r \in Range(S.heap[p].children)
    THEN CHOOSE p \in Reachable(S) : r \in Range(S.heap[p].children)
    ELSE None

\* The root above r.
RECURSIVE RootOf(_, _, _)
RootOf(S, r, fuel) ==
  IF fuel = 0 \/ ParentOf(S, r) = None THEN r ELSE RootOf(S, ParentOf(S, r), fuel - 1)

\* The basket whose root list holds the root r.
BasketOf(S, r) == CHOOSE k \in DOMAIN S.baskets : r \in Range(S.baskets[k])

\* C7: for every task reachable from the baskets find_task_location gives
\* (basket, None) for a root of basket and (basket, parent.id) otherwise,
\* basket holding the root above the task; for any other id it gives None;
\* and once a root A of Inbox with child B is moved to Later, B is located
\* at (Later, A.id).
LocationIsBasketAndParent ==
  /\ \A r \in Reachable(Store) :
       find_task_location(Store, heap[r].id) =
         IF ParentOf(Store, r) = None
           THEN Location(BasketOf(Store, r), None)
           ELSE Location(BasketOf(Store, RootOf(Store, r, Fuel)),
                         heap[ParentOf(Store, r)].id)
  /\ \A task_id \in TaskArgs \ ReachableIds(Store) :
       find_task_location(Store, task_id) = NoLocation
  /\ \A a \in Range(baskets["Inbox"]) : \A b \in Range(heap[a].children) :
       LET r == move_task(Store, heap[a].id, "Later", None)
       IN find_task_location(r.store, heap[b].id) = Location("Later", heap[a].id)

\* C7's case: a task with a child has been moved and is a root of Later; the
\* child is located in Later under it.
ChildLocatedAfterMove ==
  /\ last.op = "move_task" /\ last.ret
  /\ \E a \in Range(baskets["Later"]) : \E b \in Range(heap[a].children) :
       find_task_location(Store, heap[b].id) = Location("Later", heap[a].id)

\* C8: add_task with a valid basket and no parent_id makes the task the last
\* root of the basket; with a parent_id that resolves it makes it the last
\* child of that parent; either way it returns True and find_task finds the
\* task and everything below it.
AddedTaskIs(S, doc, basket, parent_id) ==
  LET r == AddTaskCall(S, basket, doc, parent_id)
      task == find_task(r.store, doc.id)
  IN (is_valid_basket(basket) /\ (parent_id = None \/ find_task(S, parent_id) # None)) =>
       /\ r.ret /\ ~r.raised
       /\ task # None
       /\ task \notin DOMAIN S.heap
       /\ task_to_dict(r.store.heap, task, Fuel) = doc
       /\ \A i \in DOMAIN doc.children :
            find_task(r.store, doc.children[i].id) = r.store.heap[task].children[i]
       /\ \A id \in DOMAIN S.index : find_task(r.store, id) = find_task(S, id)
       /\ IF parent_id = None
            THEN /\ r.store.baskets[basket] =
                      Append(IF basket \in DOMAIN S.baskets
                               THEN S.baskets[basket] ELSE <<>>, task)
                 /\ \A p \in DOMAIN S.heap : r.store.heap[p] = S.heap[p]
            ELSE /\ r.store.heap[find_task(S, parent_id)].children =
                      Append(S.heap[find_task(S, parent_id)].children, task)
                 /\ \A k \in DOMAIN S.baskets : r.store.baskets[k] = S.baskets[k]

AddAppendsAndIndexes ==
  \A basket \in BasketArgs, parent_id \in ParentArgs :
    /\ Cardinality(DOMAIN heap) + 1 <= MaxTasks =>
         AddedTaskIs(Store, NewTask, basket, parent_id)
    /\ Cardinality(DOMAIN heap) + 2 <= MaxTasks =>
         AddedTaskIs(Store, NewTaskWithChild, basket, parent_id)

\* C8's case: an add_task has returned True and a reachable task has a child,
\* both found by find_task.
AddedUnderParent ==
  /\ last.op = "add_task" /\ last.ret
  /\ \E p \in Reachable(Store) : \E c \in Range(heap[p].children) :
       find_task(Store, heap[c].id) = c /\ find_task(Store, heap[p].id) = p

\* C9: an add_task that returns False leaves baskets, their keys, the tasks
\* and the index as they were.
FailedAddChangesNothing ==
  [][(last'.op = "add_task" /\ ~last'.ret /\ ~last'.raised)
       => UNCHANGED <<baskets, keys, heap, index>>]_vars

\* Every key a call may name: those of the dict and those of the calls.
AnyKey == DOMAIN baskets \cup BasketArgs \cup Range(LEGACY_DAY_BASKETS)

\* C10: no call raises; for an id no task has find_task and
\* find_task_location give None and move_task and delete_task False; for a
\* key that is no basket add_task and move_task give False; for a key the
\* dict lacks get_basket_count gives 0.
NeverRaises ==
  /\ ~last.raised
  /\ \A task_id \in TaskArgs :
       /\ find_task(Store, task_id) # Raised
       /\ find_task_location(Store, task_id).kind # "raised"
       /\ ~delete_task(Store, task_id).raised
       /\ \A basket \in BasketArgs, parent_id \in ParentArgs :
            ~move_task(Store, task_id, basket, parent_id).raised
  /\ \A basket \in BasketArgs, parent_id \in ParentArgs :
       Cardinality(DOMAIN heap) + 1 <= MaxTasks =>
         ~AddTaskCall(Store, basket, NewTask, parent_id).raised
  /\ \A basket \in AnyKey, include_completed \in BOOLEAN :
       get_basket_count(Store, basket, include_completed) # Raised
  /\ find_task(Store, NonExistent) = None
  /\ find_task_location(Store, NonExistent) = NoLocation
  /\ ~delete_task(Store, NonExistent).ret
  /\ \A basket \in BasketArgs, parent_id \in ParentArgs :
       /\ ~move_task(Store, NonExistent, basket, parent_id).ret
       /\ \A task_id \in TaskArgs :
            ~move_task(Store, task_id, InvalidBasket, parent_id).ret
       /\ Cardinality(DOMAIN heap) + 1 <= MaxTasks =>
            ~AddTaskCall(Store, InvalidBasket, NewTask, parent_id).ret
  /\ \A basket \in AnyKey \ DOMAIN baskets, include_completed \in BOOLEAN :
       get_basket_count(Store, basket, include_completed) = 0

\* C10's case: a delete_task of an id with no task in the baskets has
\* returned False without raising, while the store holds tasks.
DeleteOfUnknownReturnedFalse ==
  /\ last.op = "delete_task" /\ ~last.ret /\ ~last.raised
  /\ Reachable(Store) # {}

\* The keys add_task and move_task are tried with: the keys of the calls, the
\* current week's, the weekday names, a date with a one-digit month, a date
\* followed by a newline, a fixed basket's name in lower case, and the empty
\* string.
KeyArgs ==
  BasketArgs \cup Range(get_current_week_dates) \cup Range(LEGACY_DAY_BASKETS)
  \cup {"2024-1-01", "2024-01-01\n", "inbox", ""}

\* Exactly four digits, dash, two digits, dash, two digits.
HasDateShape(key) ==
  /\ Len(KeyChars(key)) = 10
  /\ \A i \in {1, 2, 3, 4, 6, 7, 9, 10} : KeyChars(key)[i] \in Digits
  /\ KeyChars(key)[5] = "-" /\ KeyChars(key)[8] = "-"

\* C11: add_task of a new task, and move_task of a task of the baskets,
\* return True if and only if the destination key is Inbox, Later or has
\* exactly the date shape.
KeysAcceptedByShape ==
  \A key \in KeyArgs :
    LET valid == key \in {"Inbox", "Later"} \/ HasDateShape(key)
    IN /\ Cardinality(DOMAIN heap) + 1 <= MaxTasks =>
            (AddTaskCall(Store, key, NewTask, None).ret <=> valid)
       /\ \A task_id \in ReachableIds(Store) :
            move_task(Store, task_id, key, None).ret <=> valid

\* The task trees of a basket, as documents.
BasketDocs(S, key) ==
  [i \in DOMAIN S.baskets[key] |-> task_to_dict(S.heap, S.baskets[key][i], Fuel)]

\* The baskets of T hold the same task trees as those of S.
SameBasketContents(S, T) ==
  /\ DOMAIN T.baskets = DOMAIN S.baskets
  /\ \A key \in DOMAIN S.baskets : BasketDocs(T, key) = BasketDocs(S, key)

\* C12: from_dict(to_dict(store)) has, basket by basket, the same task trees
\* as the store, and its index holds exactly the ids the store's index holds.
RoundTripKeepsStore ==
  LET loaded == from_dict(to_dict(Store), TRUE)
  IN /\ SameBasketContents(Store, loaded)
     /\ DOMAIN loaded.index = DOMAIN index

\* The part of C12 that speaks of the baskets only.
RoundTripKeepsBaskets == SameBasketContents(Store, from_dict(to_dict(Store), TRUE))

-----------------------------------------------------------------------------
\* Starting from a file of the older format (weekday-name keys).

Entry(key, tasks) == [key |-> key, tasks |-> tasks]

\* The tasks of the legacy files: one open, one completed, and the open one
\* holding the completed one.
LegacyOpen == TaskDoc(1, FALSE, <<>>)
LegacyDone == TaskDoc(2, TRUE, <<>>)
LegacyNested == TaskDoc(1, FALSE, <<LegacyDone>>)

\* Legacy files: weekday names as some of the keys, with or without Inbox,
\* Later, a date of another week, a key that is no basket, and (the last
\* one) the date key of the current week that the weekday stands for.
LegacyDocs ==
  {<<Entry("Monday", <<LegacyOpen>>)>>,
   <<Entry("Thursday", <<LegacyDone>>)>>,
   <<Entry("Inbox", <<LegacyOpen>>), Entry("Wednesday", <<LegacyDone>>), Entry("Later", <<>>)>>,
   <<Entry("Monday", <<LegacyOpen>>), Entry("Tuesday", <<LegacyDone>>)>>,
   <<Entry("Sunday", <<LegacyOpen>>), Entry("Monday", <<LegacyDone>>)>>,
   <<Entry("Saturday", <<LegacyNested>>), Entry(OtherWeekDate, <<>>), Entry(InvalidBasket, <<>>)>>,
   <<Entry("Sunday", <<>>), Entry("Inbox", <<LegacyOpen>>)>>,
   <<Entry("Friday", <<LegacyOpen, LegacyDone>>)>>,
   <<Entry("Tuesday", [i \in 1..MaxTasks |-> TaskDoc(i, FALSE, <<>>)])>>,
   <<Entry("Monday", <<LegacyOpen>>), Entry(get_current_week_dates[1], <<LegacyDone>>)>>}

\* TodoData.from_dict of a legacy file.
InitLegacy ==
  \E doc \in LegacyDocs :
    LET loaded == Collect(from_dict(doc, TRUE))
    IN /\ baskets = loaded.baskets
       /\ keys = loaded.keys
       /\ heap = loaded.heap
       /\ index = loaded.index
       /\ last = Call("from_dict", Returns(loaded, TRUE))
       /\ AppInit

\* What follows the load here: the calls that add no task.
NextLegacy == MoveTask \/ DeleteTask \/ Load

SpecLegacy == InitLegacy /\ [][NextLegacy]_vars

\* The file an older version would have written for the store: the tasks of
\* the i-th day of the week under the i-th weekday name.
LegacyName(key) ==
  IF \E i \in DOMAIN get_current_week_dates : get_current_week_dates[i] = key
    THEN LEGACY_DAY_BASKETS[CHOOSE i \in DOMAIN get_current_week_dates :
                              get_current_week_dates[i] = key]
    ELSE key

LegacyDoc(S) ==
  [k \in DOMAIN to_dict(S) |-> Entry(LegacyName(to_dict(S)[k].key), to_dict(S)[k].tasks)]

\* C13: from_dict of a legacy document puts the tasks listed under the i-th
\* weekday name under the i-th date key of the current week, the result has
\* no weekday-name key, and from_dict of to_dict of the result is the same
\* store.
MigratesAndSettles(doc) ==
  LET loaded == from_dict(doc, TRUE)
      again == from_dict(to_dict(loaded), TRUE)
  IN /\ \A i \in DOMAIN LEGACY_DAY_BASKETS :
          DataHas(doc, LEGACY_DAY_BASKETS[i]) =>
            BasketDocs(loaded, get_current_week_dates[i]) = DataGet(doc, LEGACY_DAY_BASKETS[i])
     /\ Range(loaded.keys) \cap Range(LEGACY_DAY_BASKETS) = {}
     /\ Collect(again) = Collect(loaded)

LegacyLoadMigrates ==
  \A doc \in LegacyDocs \cup {LegacyDoc(Store)} : MigratesAndSettles(doc)

-----------------------------------------------------------------------------
\* The week: completion, the week's counts and the week transition.

\* del self.baskets[key]
DelBasket(S, key) ==
  [S EXCEPT !.baskets = [k \in DOMAIN S.baskets \ {key} |-> S.baskets[k]],
            !.keys = SelectSeq(S.keys, LAMBDA k : k # key)]

\* A variant of the selections that takes every task, completed or not.
EveryTaskOf(h, tasks) == tasks
KeptTasksOf(h, tasks) == tasks

\* A selection that takes a task when it or any task below it is incomplete.
IncompleteAnywhereOf(h, tasks) ==
  SelectSeq(tasks, LAMBDA t :
    \E d \in {t} \cup Descendants([heap |-> h], t) : ~h[d].completed)

\* [t for t in tasks if not t.completed]
IncompleteOf(h, tasks) == SelectSeq(tasks, LAMBDA t : ~h[t].completed)

\* [t for t in tasks if t.completed]
CompletedOf(h, tasks) == SelectSeq(tasks, LAMBDA t : h[t].completed)

\* The date keys that are not of the current week, in the dict's order.
old_week_baskets(S) ==
  SelectSeq(S.keys, LAMBDA key :
    is_date_basket(key) /\ key \notin Range(get_current_week_dates))

\* check_and_perform_week_transition, the loop over old_week_baskets.
RECURSIVE transition_baskets(_, _, _)
transition_baskets(S, old, tasks_moved) ==
  IF old = <<>> THEN Returns(S, tasks_moved)
  ELSE LET basket_key == Head(old)
           tasks == IF basket_key \in DOMAIN S.baskets THEN S.baskets[basket_key] ELSE <<>>
           incomplete_tasks == IncompleteOf(S.heap, tasks)
           completed_tasks == CompletedOf(S.heap, tasks)
           S1 == IF incomplete_tasks = <<>> THEN S
                 ELSE LET E == ensure_basket_exists(S, "Inbox")
                      IN SetBasket(E, "Inbox", E.baskets["Inbox"] \o incomplete_tasks)
           S2 == IF completed_tasks # <<>>
                   THEN SetBasket(S1, basket_key, completed_tasks)
                   ELSE DelBasket(S1, basket_key)
       IN transition_baskets(S2, Tail(old), tasks_moved + Len(incomplete_tasks))

\* TodoData.check_and_perform_week_transition
check_and_perform_week_transition(S) == transition_baskets(S, old_week_baskets(S), 0)

\* A variant of count_recursive that does not descend into the children.
RECURSIVE count_roots_only(_, _, _)
count_roots_only(h, tasks, fuel) ==
  IF tasks = <<>> THEN <<0, 0>>
  ELSE LET rest == count_roots_only(h, Tail(tasks), fuel)
       IN <<(IF h[Head(tasks)].completed THEN 0 ELSE 1) + rest[1],
            (IF h[Head(tasks)].completed THEN 1 ELSE 0) + rest[2]>>

\* TodoData.get_week_task_counts: count_recursive gives <<open, done>>.
RECURSIVE count_recursive(_, _, _)
count_recursive(h, tasks, fuel) ==
  IF fuel = 0 \/ tasks = <<>> THEN <<0, 0>>
  ELSE LET task == Head(tasks)
           child == count_recursive(h, h[task].children, fuel - 1)
           rest == count_recursive(h, Tail(tasks), fuel)
       IN <<(IF h[task].completed THEN 0 ELSE 1) + child[1] + rest[1],
            (IF h[task].completed THEN 1 ELSE 0) + child[2] + rest[2]>>

RECURSIVE week_counts_from(_, _)
week_counts_from(S, i) ==
  IF i > Len(get_current_week_dates) THEN <<0, 0>>
  ELSE LET date_key == get_current_week_dates[i]
           here == IF date_key \in DOMAIN S.baskets
                     THEN count_recursive(S.heap, S.baskets[date_key], Fuel)
                     ELSE <<0, 0>>
           rest == week_counts_from(S, i + 1)
       IN <<here[1] + rest[1], here[2] + rest[2]>>

get_week_task_counts(S) == week_counts_from(S, 1)

\* A second date key outside the current week.
SecondOtherWeekDate == "2023-12-26"

\* The keys of the files the week's runs start from.
WeekKeys ==
  <<"Inbox", "2024-01-03", "2024-01-07", OtherWeekDate, SecondOtherWeekDate, "Later">>

\* Where each task of such a file is: task i is a child of an earlier task
\* (place j < i) or a root of WeekKeys[k] (place MaxTasks + k).
WeekPlacements ==
  {f \in [1..MaxTasks -> 1..(MaxTasks + Len(WeekKeys))] :
     \A i \in 1..MaxTasks : f[i] < i \/ f[i] > MaxTasks}

RECURSIVE PlacedTask(_, _)
PlacedTask(f, i) ==
  LET below == SortedSeq({j \in 1..MaxTasks : f[j] = i})
  IN TaskDoc(i, FALSE, [n \in DOMAIN below |-> PlacedTask(f, below[n])])

WeekDoc(f) ==
  [k \in DOMAIN WeekKeys |->
     LET roots == SortedSeq({j \in 1..MaxTasks : f[j] = MaxTasks + k})
     IN Entry(WeekKeys[k], [n \in DOMAIN roots |-> PlacedTask(f, roots[n])])]

\* TodoData.from_dict of a file with tasks in Inbox, in days of the week, in
\* days of other weeks and in Later.
InitWeek ==
  \E f \in WeekPlacements :
    LET loaded == Collect(from_dict(WeekDoc(f), TRUE))
    IN /\ baskets = loaded.baskets
       /\ keys = loaded.keys
       /\ heap = loaded.heap
       /\ index = loaded.index
       /\ last = Call("from_dict", Returns(loaded, TRUE))
       /\ AppInit

\* TaskTree.toggle_completion: task.completed = not task.completed
ToggleCompletion ==
  \E task \in Reachable(Store) :
    /\ heap' = [heap EXCEPT ![task].completed = ~@]
    /\ last' = Call("toggle_completion", Returns(Store, TRUE))
    /\ UNCHANGED <<baskets, keys, index>>
    /\ UNCHANGED appVars

WeekTransition ==
  LET result == check_and_perform_week_transition(Store)
  IN /\ Becomes(result.store)
     /\ last' = Call("check_and_perform_week_transition", result)

NextWeek == ToggleCompletion \/ WeekTransition \/ DeleteTask \/ Load

SpecWeek == InitWeek /\ [][NextWeek]_vars

\* The date baskets outside the current week, and their incomplete roots.
StaleKeys(S) ==
  {k \in DOMAIN S.baskets : HasDateShape(k) /\ k \notin Range(get_current_week_dates)}
StaleIncomplete(S) ==
  {t \in DOMAIN S.heap :
     \E k \in StaleKeys(S) : t \in Range(S.baskets[k]) /\ ~S.heap[t].completed}

\* C14: check_and_perform_week_transition returns the number of incomplete
\* roots of the date baskets outside the current week; Inbox afterwards is
\* its old list followed by exactly those tasks; each such basket keeps only
\* its completed roots, or is removed if it had none; every other basket,
\* every task and the index are as before.
TransitionMovesIncomplete ==
  LET r == check_and_perform_week_transition(Store)
      T == r.store
      added == SubSeq(T.baskets["Inbox"], Len(baskets["Inbox"]) + 1, Len(T.baskets["Inbox"]))
  IN /\ ~r.raised
     /\ r.ret = Cardinality(StaleIncomplete(Store))
     /\ SubSeq(T.baskets["Inbox"], 1, Len(baskets["Inbox"])) = baskets["Inbox"]
     /\ Len(added) = r.ret /\ Range(added) = StaleIncomplete(Store)
     /\ \A k \in StaleKeys(Store) :
          IF \E i \in DOMAIN baskets[k] : heap[baskets[k][i]].completed
            THEN /\ k \in DOMAIN T.baskets
                 /\ T.baskets[k] = SelectSeq(baskets[k], LAMBDA t : heap[t].completed)
            ELSE k \notin DOMAIN T.baskets
     /\ \A k \in DOMAIN baskets \ (StaleKeys(Store) \cup {"Inbox"}) :
          k \in DOMAIN T.baskets /\ T.baskets[k] = baskets[k]
     /\ DOMAIN T.baskets \subseteq DOMAIN baskets
     /\ T.heap = heap /\ T.index = index

\* C14's case: a transition has moved a task to Inbox, kept one basket of
\* another week for its completed task and removed the other one.
TransitionMovedAndArchived ==
  /\ last.op = "check_and_perform_week_transition"
  /\ last.ret > 0
  /\ OtherWeekDate \in DOMAIN baskets /\ baskets[OtherWeekDate] # <<>>
  /\ SecondOtherWeekDate \notin DOMAIN baskets

\* C15: a second check_and_perform_week_transition right after a first
\* returns 0 and leaves the store as the first left it.
TransitionIsIdempotent ==
  LET first == check_and_perform_week_transition(Store)
      second == check_and_perform_week_transition(first.store)
  IN /\ ~second.raised
     /\ second.ret = 0
     /\ second.store = first.store

\* C15's case: a transition called on a store that keeps a basket of another
\* week with its completed tasks has moved nothing.
TransitionMovedNothing ==
  /\ last.op = "check_and_perform_week_transition"
  /\ last.ret = 0
  /\ \E k \in StaleKeys(Store) : baskets[k] # <<>>

\* The tasks of a basket, at every depth.
TasksIn(S, key) == Range(VisitAll(S.heap, <<>>, S.baskets[key]))

\* C16: get_basket_count without completed tasks is the number of incomplete
\* tasks of the basket at every depth, each judged by its own flag whatever
\* its ancestors' flags; with completed tasks it is the number of all the
\* tasks of the basket.
CountJudgesEachTask ==
  \A key \in DOMAIN baskets :
    /\ get_basket_count(Store, key, FALSE) =
         Cardinality({t \in TasksIn(Store, key) : ~heap[t].completed})
    /\ get_basket_count(Store, key, TRUE) = Cardinality(TasksIn(Store, key))

\* The tasks of the current week's seven baskets.
WeekTasks(S) ==
  UNION {TasksIn(S, get_current_week_dates[i]) :
           i \in {j \in DOMAIN get_current_week_dates :
                    get_current_week_dates[j] \in DOMAIN S.baskets}}

\* C17: get_week_task_counts is (open, completed), the numbers of incomplete
\* and of completed tasks at every depth of the current week's seven
\* baskets, tasks elsewhere not counted; the two add up to the number of
\* tasks of those baskets.
WeekCountsAreOfTheWeek ==
  LET counts == get_week_task_counts(Store)
  IN /\ counts[1] = Cardinality({t \in WeekTasks(Store) : ~heap[t].completed})
     /\ counts[2] = Cardinality({t \in WeekTasks(Store) : heap[t].completed})
     /\ counts[1] + counts[2] = Cardinality(WeekTasks(Store))

\* C17's case: a day of the week holds a task with a child, one of the two
\* completed, while Inbox holds a task too: the counts are (1, 1).
WeekCountsWithChildAndInbox ==
  /\ get_week_task_counts(Store) = <<1, 1>>
  /\ \E i \in DOMAIN get_current_week_dates :
       \E t \in Range(baskets[get_current_week_dates[i]]) : heap[t].children # <<>>
  /\ Cardinality(DOMAIN heap) > 2 => baskets["Inbox"] # <<>>

-----------------------------------------------------------------------------
\* The application: undo history and the tasks file (src/src/app.py,
\* src/src/storage.py).

\* TodoApp.max_history
max_history == 50

\* The tasks file and its temporary sibling.
Files == [file |-> file, tmp |-> tmp, backup |-> backup]

\* StorageManager.save, step by step.  open(temp_path, 'w') creates or
\* empties the temporary file; json.dump and the end of the with block leave
\* the whole document in it; temp_path.replace(file_path) renames it over
\* the target.
OpenTarget(F) == [F EXCEPT !.file = Partial]
OpenTemp(F) == [F EXCEPT !.tmp = Partial]
DumpTemp(F, S) == [F EXCEPT !.tmp = Complete(to_dict(S))]
ReplaceTarget(F) == [F EXCEPT !.file = F.tmp, !.tmp = Absent]

\* The ways a whole call of save can end: True after the rename, or False
\* after an OSError in ensure_directory or in open, in json.dump, in
\* os.chmod or in replace.
SaveResults(F, S) ==
  {[files |-> ReplaceTarget(DumpTemp(OpenTemp(F), S)), ret |-> TRUE]}
  \cup (IF faults < MaxFaults
          THEN {[files |-> F, ret |-> FALSE],
                [files |-> OpenTemp(F), ret |-> FALSE],
                [files |-> DumpTemp(OpenTemp(F), S), ret |-> FALSE]}
          ELSE {})

\* TodoApp.save_data: the files after storage.save(self.todo_data).
SaveData(S) ==
  \E saved \in SaveResults(Files, S) :
    /\ file' = saved.files.file
    /\ tmp' = saved.files.tmp
    /\ faults' = IF saved.ret THEN 0 ELSE faults + 1
    /\ backup' = backup
    /\ now' = now
    /\ pc' = pc

\* A save_to_history that keeps the Task objects of the baskets (a copy of
\* the dict and of its lists, not of the tasks).
save_to_history_shared(hist, S) ==
  Append(hist, [k \in DOMAIN S.keys |->
                  [key |-> S.keys[k],
                   tasks |-> [i \in DOMAIN S.baskets[S.keys[k]] |->
                                [ref |-> S.baskets[S.keys[k]][i]]]]])

\* TodoApp.save_to_history: append the snapshot, pop(0) beyond max_history.
save_to_history_unbounded(hist, S) == Append(hist, to_dict(S))
save_to_history(hist, S) ==
  LET pushed == Append(hist, to_dict(S))
  IN IF Len(pushed) > max_history THEN Tail(pushed) ELSE pushed

\* TodoApp.action_undo on the history and the store: nothing with an empty
\* history, else history.pop() and TodoData.from_dict of the snapshot.
action_undo_oldest(hist, S) ==
  IF hist = <<>> THEN [history |-> hist, result |-> Returns(S, FALSE)]
  ELSE LET loaded == from_dict(hist[1], TRUE)
       IN [history |-> SubSeq(hist, 1, Len(hist) - 1),
           result |-> IF HasRaised(loaded.index) THEN Raises(S)
                      ELSE Returns(loaded, TRUE)]
action_undo(hist, S) ==
  IF hist = <<>> THEN [history |-> hist, result |-> Returns(S, FALSE)]
  ELSE LET loaded == from_dict(hist[Len(hist)], TRUE)
       IN [history |-> SubSeq(hist, 1, Len(hist) - 1),
           result |-> IF HasRaised(loaded.index) THEN Raises(S)
                      ELSE Returns(loaded, TRUE)]

\* A handler that forgets save_data().
HandlesWithoutSave(op, result) ==
  /\ pc = "idle"
  /\ history' = save_to_history(history, Store)
  /\ BecomesStore(result.store)
  /\ UNCHANGED <<file, tmp, faults, backup, now, pc>>
  /\ last' = Call(op, result)

\* A handler of the application: save_to_history(), the change, save_data();
\* a change that raises leaves the handler before save_data().
Handles(op, result) ==
  /\ pc = "idle"
  /\ history' = save_to_history(history, Store)
  /\ BecomesStore(result.store)
  /\ IF result.raised
       THEN UNCHANGED <<file, tmp, faults, backup, now, pc>>
       ELSE SaveData(result.store)
  /\ last' = Call(op, result)

\* TodoApp.action_toggle_complete on each task the tree can have selected.
toggle_calls(S) ==
  {Returns([S EXCEPT !.heap[task].completed = ~@], TRUE) : task \in Reachable(S)}

\* TodoApp.action_delete_task on each task the tree can have selected.
delete_calls(S) ==
  {delete_task(S, S.heap[task].id) : task \in Reachable(S)}

\* The baskets the selector dialog answers with: TodoData.get_baskets() from
\* its list, a weekday name from its quick-jump keys.
SelectorBaskets == {"Inbox", get_current_week_dates[3], "Later", "Monday"}

\* TodoApp.action_move_task: move_task(task.id, basket) on the selected task.
move_calls(S) ==
  {move_task(S, S.heap[task].id, basket, None) :
     task \in Reachable(S), basket \in SelectorBaskets}

\* list.insert(list.index(current) + 1, task), append on ValueError.
InsertAfter(tasks, current, task) ==
  LET hits == {i \in DOMAIN tasks : tasks[i] = current}
  IN IF hits = {} THEN Append(tasks, task)
     ELSE LET idx == CHOOSE i \in hits : \A j \in hits : i <= j
          IN SubSeq(tasks, 1, idx) \o <<task>> \o SubSeq(tasks, idx + 1, Len(tasks))

\* TodoApp.on_task_tree_task_created with the pane on basket and the tree on
\* current (None with an empty list): the new task goes to the end of the
\* basket, or right after current among its siblings.
on_task_tree_task_created(S, basket, current, doc) ==
  LET made == task_from_dict(S.heap, doc)
      task == made.ref
      S0 == [S EXCEPT !.heap = made.heap]
  IN IF current = None THEN add_task(S0, basket, task, None)
     ELSE LET location == find_task_location(S0, S0.heap[current].id)
          IN IF location.kind = "raised" THEN Raises(S0)
             ELSE IF location.kind = "none" THEN Returns(S0, FALSE)
             ELSE IF location.parent # None
               THEN LET parent == find_task(S0, location.parent)
                    IN IF parent = Raised THEN Raises(S0)
                       ELSE IF parent = None THEN Returns(S0, FALSE)
                       ELSE add_to_index(
                              [S0 EXCEPT !.heap[parent].children =
                                           InsertAfter(@, current, task)], task)
               ELSE IF BasketList(S0, basket) = RaisedList THEN Raises(S0)
                    ELSE add_to_index(
                           SetBasket(S0, basket,
                                     InsertAfter(S0.baskets[basket], current, task)),
                           task)

\* Task(title=message.title): a task with an id no task of S has.
FreshTask(S) ==
  LET known == {S.heap[r].id : r \in DOMAIN S.heap} \cup DOMAIN S.index
      id == CHOOSE id \in Ids \ known : \A other \in Ids \ known : id <= other
  IN TaskDoc(id, FALSE, <<>>)

\* The baskets the pane can be on.
PaneBaskets == {"Inbox", get_current_week_dates[3], "Later"}

create_calls(S) ==
  IF Cardinality(DOMAIN S.heap) + 1 > MaxTasks THEN {}
  ELSE UNION {{on_task_tree_task_created(S, basket, current, FreshTask(S)) :
                 current \in {None} \cup (IF basket \in DOMAIN S.baskets
                                           THEN TasksIn(S, basket) ELSE {})} :
              basket \in PaneBaskets}

AppToggle ==
  \E result \in toggle_calls(Store) : Handles("action_toggle_complete", result)

AppDelete ==
  \E result \in delete_calls(Store) : Handles("action_delete_task", result)

AppMove ==
  \E result \in move_calls(Store) : Handles("action_move_task", result)

AppCreate ==
  \E result \in create_calls(Store) : Handles("on_task_tree_task_created", result)

\* TodoApp.action_undo: with a snapshot, the store is replaced and saved.
Undo ==
  /\ pc = "idle"
  /\ LET undone == action_undo(history, Store)
     IN /\ history' = undone.history
        /\ last' = Call("action_undo", undone.result)
        /\ IF history = <<>>
           THEN UNCHANGED <<baskets, keys, heap, index, file, tmp, pc, faults,
                             backup, now>>
           ELSE /\ BecomesStore(undone.result.store)
                /\ SaveData(undone.result.store)

\* The tasks file at start-up: one task, open in Inbox or completed in Later.
AppDocs ==
  {<<Entry("Inbox", <<TaskDoc(1, FALSE, <<>>)>>), Entry("Later", <<>>)>>,
   <<Entry("Inbox", <<>>), Entry("Later", <<TaskDoc(1, TRUE, <<>>)>>)>>}

\* The same, and a task with a child in Inbox.
UndoDocs ==
  AppDocs \cup
  {<<Entry("Inbox", <<TaskDoc(1, FALSE, <<TaskDoc(2, FALSE, <<>>)>>)>>),
     Entry("Later", <<>>)>>}

\* StorageManager.load at start-up, then TodoApp.__init__.
InitFrom(docs) ==
  \E doc \in docs :
    LET loaded == Collect(from_dict(doc, TRUE))
    IN /\ baskets = loaded.baskets
       /\ keys = loaded.keys
       /\ heap = loaded.heap
       /\ index = loaded.index
       /\ last = Call("load", Returns(loaded, TRUE))
       /\ history = <<>>
       /\ file = Complete(doc)
       /\ tmp = Absent
       /\ pc = "idle"
       /\ faults = 0
       /\ backup = Absent
       /\ now = Instant

InitApp == InitFrom(AppDocs)

InitUndo == InitFrom(UndoDocs)

NextHistory == AppToggle \/ AppDelete \/ Undo

SpecHistory == InitApp /\ [][NextHistory]_vars

\* C18: the history never holds more than max_history snapshots, and a push
\* made while max_history are held leaves the former second to last
\* snapshots followed by the new one.
HistoryIsBounded ==
  /\ Len(history) <= max_history
  /\ Len(history) = max_history =>
       save_to_history(history, Store) = Tail(history) \o <<to_dict(Store)>>
  /\ Len(save_to_history(history, Store)) <= max_history

\* C18's case: a handler has pushed while max_history snapshots were held:
\* the history is full and its oldest snapshot is no longer the store the
\* application started with.
PushedOnFullHistory ==
  /\ Len(history) = max_history
  /\ last.op = "action_toggle_complete"
  /\ history[1] \notin {to_dict(from_dict(doc, TRUE)) : doc \in AppDocs}
  /\ history[max_history] # to_dict(Store)

\* Snapshots the model lets the history grow to where stores of several
\* tasks are undone.
MaxUndo == 2

NextUndo ==
  \/ Len(history) < MaxUndo /\ (AppToggle \/ AppDelete \/ AppMove \/ AppCreate)
  \/ Undo

SpecUndo == InitUndo /\ [][NextUndo]_vars

\* What the handlers can make of a store.
handler_calls(S) ==
  toggle_calls(S) \cup delete_calls(S) \cup move_calls(S) \cup create_calls(S)

\* save_to_history(), a handler's change, then action_undo().
UndoAfter(hist, S, result) ==
  action_undo(save_to_history(hist, S), Collect(result.store))

\* The baskets and task trees of S are those the snapshot holds.
HoldsSnapshot(S, state) ==
  /\ DOMAIN S.baskets = {state[k].key : k \in DOMAIN state}
  /\ \A k \in DOMAIN state : BasketDocs(S, state[k].key) = state[k].tasks

HandlerOps ==
  {"action_toggle_complete", "action_delete_task", "action_move_task",
   "on_task_tree_task_created"}

-----------------------------------------------------------------------------
\* StorageManager.save, statement by statement, with the errors and the
\* interruptions that can end it at each of them.

\* Where save stands: before ensure_directory and open (begin), before
\* json.dump (dump), before os.chmod (chmod), before replace (replace).
SavePcs == {"begin", "dump", "chmod", "replace"}

\* save(todo_data) is called.
SaveBegin ==
  /\ pc = "idle"
  /\ pc' = "begin"
  /\ last' = Call("save", Returns(Store, None))
  /\ UNCHANGED <<baskets, keys, heap, index, history, file, tmp, faults, backup, now>>

\* self.ensure_directory(); open(temp_path, 'w', encoding='utf-8')
SaveOpen ==
  /\ pc = "begin"
  /\ file' = OpenTemp(Files).file
  /\ tmp' = OpenTemp(Files).tmp
  /\ pc' = "dump"
  /\ UNCHANGED <<baskets, keys, heap, index, last, history, faults, backup, now>>

\* json.dump(todo_data.to_dict(), f, ...) and the end of the with block.
SaveDump ==
  /\ pc = "dump"
  /\ file' = DumpTemp(Files, Store).file
  /\ tmp' = DumpTemp(Files, Store).tmp
  /\ pc' = "chmod"
  /\ UNCHANGED <<baskets, keys, heap, index, last, history, faults, backup, now>>

\* os.chmod(temp_path, 0o600)
SaveChmod ==
  /\ pc = "chmod"
  /\ pc' = "replace"
  /\ UNCHANGED <<baskets, keys, heap, index, last, history, file, tmp, faults, backup, now>>

\* temp_path.replace(self.file_path); return True
SaveReplace ==
  /\ pc = "replace"
  /\ file' = ReplaceTarget(Files).file
  /\ tmp' = ReplaceTarget(Files).tmp
  /\ pc' = "idle"
  /\ last' = Call("save", Returns(Store, TRUE))
  /\ UNCHANGED <<baskets, keys, heap, index, history, faults, backup, now>>

\* except (OSError, TypeError): return False, from whichever statement
\* raised; the files stay as that statement found them.
SaveFails ==
  /\ pc \in SavePcs
  /\ pc' = "idle"
  /\ last' = Call("save", Returns(Store, FALSE))
  /\ UNCHANGED <<baskets, keys, heap, index, history, file, tmp, faults, backup, now>>

\* The process ends inside save (a signal, power loss).
Crash ==
  /\ pc \in SavePcs
  /\ pc' = "crashed"
  /\ last' = Call("save", Raises(Store))
  /\ UNCHANGED <<baskets, keys, heap, index, history, file, tmp, faults, backup, now>>

\* StorageManager._needs_migration
needs_migration(data) ==
  \E k \in DOMAIN data : data[k].key \in Range(LEGACY_DAY_BASKETS)

\* StorageManager.load: a new TodoData without a file; from_dict of a whole
\* document; a file json.load cannot read (JSONDecodeError) is renamed to
\* .json.backup and a new TodoData returned; with a JSON value that is no
\* object, data.keys() of _needs_migration raises AttributeError, which the
\* except clause does not name.  save is called after a migration.
load(F) ==
  IF F.file.kind = "absent"
    THEN [result |-> Returns(TodoData, TRUE), files |-> F, saves |-> FALSE]
  ELSE IF F.file.kind = "partial"
    THEN [result |-> Returns(TodoData, TRUE),
          files |-> [F EXCEPT !.file = Absent, !.backup = F.file],
          saves |-> FALSE]
  ELSE IF F.file.kind = "other"
    THEN [result |-> Raises(TodoData), files |-> F, saves |-> FALSE]
  ELSE [result |-> Returns(from_dict(F.file.data, TRUE), TRUE), files |-> F,
        saves |-> needs_migration(F.file.data)]

\* The application is started again: TodoApp.__init__ with storage.load();
\* an exception leaving load ends the process again.
Restart ==
  /\ pc = "crashed"
  /\ LET loaded == load(Files)
     IN /\ BecomesStore(loaded.result.store)
        /\ file' = loaded.files.file
        /\ tmp' = loaded.files.tmp
        /\ backup' = loaded.files.backup
        /\ now' = now
        /\ pc' = IF loaded.result.raised THEN "crashed"
                 ELSE IF loaded.saves THEN "begin" ELSE "idle"
        /\ last' = Call("load", loaded.result)
  /\ history' = <<>>
  /\ faults' = 0

\* Between two saves the store changes.
NextSave ==
  \/ pc = "idle" /\ (ToggleCompletion \/ DeleteTask)
  \/ SaveBegin \/ SaveOpen \/ SaveDump \/ SaveChmod \/ SaveReplace
  \/ SaveFails \/ Crash \/ Restart

SpecSave == InitApp /\ [][NextSave]_vars

\* C20: the tasks file never holds a partial document; through every step of
\* save, ended by True, by False or by an interruption, the file stays as it
\* was or becomes the whole document of the store, and the store stays as it
\* was; when save returns True the file holds the store's document and the
\* temporary file is gone.
SaveIsAtomic ==
  /\ [](file.kind # "partial")
  /\ [][/\ pc \in SavePcs \/ pc' = "begin" =>
             /\ file' \in {file, Complete(to_dict(Store))}
             /\ Store' = Store
        /\ pc \in SavePcs /\ pc' = "idle" /\ last'.ret = TRUE =>
             /\ file' = Complete(to_dict(Store))
             /\ tmp' = Absent]_vars

\* C20's case: json.dump has failed with a changed store: save has returned
\* False, the temporary file holds a partial document, the tasks file the
\* whole document saved before.
SaveFailedMidWrite ==
  /\ last.op = "save"
  /\ pc = "idle"
  /\ last.ret = FALSE
  /\ tmp = Partial
  /\ file.kind = "complete"
  /\ file.data # to_dict(Store)

-----------------------------------------------------------------------------
\* StorageManager.load on the files a start can find.

\* No file, a file json.load rejects, a JSON list, and whole documents.
StartFiles == {Absent, Partial, NotAnObject} \cup {Complete(doc) : doc \in AppDocs}

\* TodoApp.__init__: self.todo_data = self.storage.load()
InitLoad ==
  \E found \in StartFiles :
    LET loaded == load([file |-> found, tmp |-> Absent, backup |-> Absent])
        store == Collect(loaded.result.store)
    IN /\ baskets = store.baskets
       /\ keys = store.keys
       /\ heap = store.heap
       /\ index = store.index
       /\ last = Call("load", loaded.result)
       /\ history = <<>>
       /\ file = loaded.files.file
       /\ tmp = loaded.files.tmp
       /\ backup = loaded.files.backup
       /\ now = Instant
       /\ pc = IF loaded.result.raised THEN "crashed" ELSE "idle"
       /\ faults = 0

\* The file is written by hand or by another program while the application
\* is not running.
ForeignWrite ==
  /\ pc = "crashed"
  /\ file' \in StartFiles
  /\ last' = Call("edit", Returns(Store, None))
  /\ UNCHANGED <<baskets, keys, heap, index, history, tmp, pc, faults, backup, now>>

NextLoad == NextSave \/ ForeignWrite

SpecLoad == InitLoad /\ [][NextLoad]_vars

\* C21: load raises for no file content; for a content that is no document
\* it returns a new TodoData, leaves no tasks file and leaves the content in
\* the backup file; without a file it returns a new TodoData and leaves the
\* files as they are.
LoadRecovers ==
  /\ \A found \in StartFiles :
       LET before == [Files EXCEPT !.file = found]
           loaded == load(before)
       IN /\ ~loaded.result.raised
          /\ found.kind \in {"partial", "other"} =>
               /\ loaded.result.store = TodoData
               /\ loaded.files = [before EXCEPT !.file = Absent, !.backup = found]
          /\ found = Absent =>
               /\ loaded.result.store = TodoData
               /\ loaded.files = before
  /\ last.op = "load" => ~last.raised

-----------------------------------------------------------------------------
\* The week of the clock (get_current_week_monday, get_current_week_dates).

WEEK_TRANSITION_HOUR == 4

\* The last day the clock runs to, from the model's instant: 2024-02-05,
\* past four Mondays and the end of a month.
LastDay == 49

\* datetime.weekday(): Monday is 0.  Day 0 is a Monday.
weekday(t) == t.day % 7

\* get_current_week_monday, as a day.
get_current_week_monday_at_midnight(t) == t.day - weekday(t)
get_current_week_monday(t) ==
  IF weekday(t) = 0 /\ t.hour < WEEK_TRANSITION_HOUR
    THEN t.day - 7
    ELSE t.day - weekday(t)

\* The calendar: days of each month, and the date n days after (y, m, d).
DaysIn(y, m) ==
  IF m = 2 THEN (IF y % 4 = 0 /\ (y % 100 # 0 \/ y % 400 = 0) THEN 29 ELSE 28)
  ELSE IF m \in {4, 6, 9, 11} THEN 30 ELSE 31

RECURSIVE AddDays(_, _, _, _)
AddDays(y, m, d, n) ==
  IF n = 0 THEN <<y, m, d>>
  ELSE IF d < DaysIn(y, m) THEN AddDays(y, m, d + 1, n - 1)
  ELSE IF m < 12 THEN AddDays(y, m + 1, 1, n - 1)
  ELSE AddDays(y + 1, 1, 1, n - 1)

\* strftime('%Y-%m-%d')
DigitChar(i) == <<"0", "1", "2", "3", "4", "5", "6", "7", "8", "9">>[i + 1]
strftime(date) ==
  DateChars(<<DigitChar(date[1] \div 1000), DigitChar((date[1] \div 100) % 10),
              DigitChar((date[1] \div 10) % 10), DigitChar(date[1] % 10)>>,
            <<DigitChar(date[2] \div 10), DigitChar(date[2] % 10)>>,
            <<DigitChar(date[3] \div 10), DigitChar(date[3] % 10)>>)

\* The key of a day.
DayKey(day) == strftime(AddDays(2023, 12, 18, day))

\* get_current_week_dates at t: the characters of its seven keys.
week_dates_at(t) ==
  [i \in 1..7 |-> DayKey(get_current_week_monday(t) + (i - 1))]

\* An hour passes.
Tick ==
  /\ now' = IF now.hour < 23 THEN [now EXCEPT !.hour = @ + 1]
            ELSE [day |-> now.day + 1, hour |-> 0]
  /\ now'.day <= LastDay
  /\ UNCHANGED <<baskets, keys, heap, index, last, history, file, tmp, pc,
                 faults, backup>>

\* The application stays open while time passes.
SpecClock == InitApp /\ [][Tick]_vars

\* C22: the week's Monday is today minus its weekday, seven days earlier on
\* a Monday before 04:00; it is a Monday, at most seven days back; the seven
\* keys are date-shaped, differ, and are those of the model's instant and of
\* known days; from one hour to the next the keys change only on reaching
\* Monday 04:00, and the Monday never moves back.
WeekFollowsClock ==
  /\ [](LET monday == get_current_week_monday(now)
            dates == week_dates_at(now)
        IN /\ monday = IF weekday(now) = 0 /\ now.hour < 4
                         THEN now.day - 7 ELSE now.day - weekday(now)
           /\ monday % 7 = 0
           /\ now.day - monday \in 0..7
           /\ now.day - monday = 7 <=> (weekday(now) = 0 /\ now.hour < 4)
           /\ \A i \in 1..7 :
                /\ Len(dates[i]) = 10
                /\ \A c \in {1, 2, 3, 4, 6, 7, 9, 10} : dates[i][c] \in Digits
                /\ dates[i][5] = "-" /\ dates[i][8] = "-"
           /\ Cardinality(Range(dates)) = 7
           /\ monday = 14 =>
                dates = [i \in 1..7 |-> KeyChars(get_current_week_dates[i])]
           /\ monday = 42 =>
                dates[4] = DateChars(<<"2", "0", "2", "4">>, <<"0", "2">>, <<"0", "1">>)
           /\ week_dates_at([day |-> 14, hour |-> 3])[1] = KeyChars(OtherWeekDate)
           /\ week_dates_at([day |-> 14, hour |-> 3])[2] = KeyChars(SecondOtherWeekDate))
  /\ [][/\ get_current_week_monday(now') >= get_current_week_monday(now)
        /\ week_dates_at(now') # week_dates_at(now) =>
             /\ weekday(now') = 0
             /\ now'.hour = 4
             /\ get_current_week_monday(now') = get_current_week_monday(now) + 7]_vars

\* C22's case: the clock has reached Monday 2024-01-08, 04:00: the keys are
\* those of the new week, an hour earlier they were those of the week before.
WeekTurnedAtFour ==
  /\ now = [day |-> 21, hour |-> 4]
  /\ week_dates_at(now)[1] =
       DateChars(<<"2", "0", "2", "4">>, <<"0", "1">>, <<"0", "8">>)
  /\ week_dates_at([day |-> 21, hour |-> 3])[1] = KeyChars("2024-01-01")

-----------------------------------------------------------------------------
\* Nesting (TodoApp.action_nest_task).

\* TaskTree._build_flat_list with completed tasks shown and nothing
\* collapsed: the tasks in the order of the tree, each with its level.
RECURSIVE build_flat_list(_, _, _, _)
build_flat_list(h, tasks, level, fuel) ==
  IF tasks = <<>> \/ fuel = 0 THEN <<>>
  ELSE <<[task |-> Head(tasks), level |-> level]>>
       \o build_flat_list(h, h[Head(tasks)].children, level + 1, fuel - 1)
       \o build_flat_list(h, Tail(tasks), level, fuel)

\* The entries before idx at the level of entry idx.
PrevAtLevel(flat, idx) == {i \in 1..(idx - 1) : flat[i].level = flat[idx].level}

\* TodoApp.action_nest_task with the tree on entry idx of the basket's flat
\* list, where an earlier entry has its level: the task leaves its parent or
\* its basket and becomes the last child of the nearest such entry.
action_nest_task(S, basket, idx) ==
  LET flat == build_flat_list(S.heap, S.baskets[basket], 0, Fuel)
      current_task == flat[idx].task
      prev_task == flat[CHOOSE i \in PrevAtLevel(flat, idx) :
                          \A j \in PrevAtLevel(flat, idx) : j <= i].task
      task_id == S.heap[current_task].id
      location == find_task_location(S, task_id)
  IN IF location.kind = "raised" THEN Raises(S)
     ELSE IF location.kind = "none" THEN Returns(S, FALSE)
     ELSE LET parent == IF location.parent # None
                          THEN find_task(S, location.parent) ELSE None
              removed ==
                IF location.parent # None
                  THEN IF parent \in {None, Raised} THEN S
                       ELSE [S EXCEPT !.heap = remove_child(@, parent, task_id)]
                  ELSE SetBasket(S, location.basket,
                                 WithoutId(S.heap, S.baskets[location.basket], task_id))
          IN IF parent = Raised THEN Raises(S)
             ELSE Returns([removed EXCEPT !.heap = add_child(@, prev_task, current_task)],
                          TRUE)

nest_calls(S) ==
  UNION {{action_nest_task(S, basket, idx) :
            idx \in {i \in DOMAIN build_flat_list(S.heap, S.baskets[basket], 0, Fuel) :
                       PrevAtLevel(build_flat_list(S.heap, S.baskets[basket], 0, Fuel), i) # {}}} :
         basket \in PaneBaskets \cap DOMAIN S.baskets}

AppNest ==
  \E result \in nest_calls(Store) : Handles("action_nest_task", result)

\* A chain of tasks from id, each the only child of the one before, the last
\* with the two children that stand at level MAX_NESTING_DEPTH.
RECURSIVE ChainDoc(_)
ChainDoc(id) ==
  TaskDoc(id, FALSE,
          IF id = MAX_NESTING_DEPTH
            THEN <<TaskDoc(id + 1, FALSE, <<>>), TaskDoc(id + 2, FALSE, <<>>)>>
            ELSE <<ChainDoc(id + 1)>>)

\* The tasks file at start-up: tasks nested as deep as the policy allows, or
\* two tasks side by side.
NestDocs ==
  {<<Entry("Inbox", <<ChainDoc(1)>>), Entry("Later", <<>>)>>,
   <<Entry("Inbox", <<TaskDoc(1, FALSE, <<>>), TaskDoc(2, FALSE, <<>>)>>),
     Entry("Later", <<>>)>>}

NextNest ==
  \/ Len(history) < MaxUndo /\ (AppNest \/ AppMove \/ AppDelete)
  \/ Undo

SpecNest == InitFrom(NestDocs) /\ [][NextNest]_vars

\* The deepest level a task of the store stands at.
Levels(S) ==
  UNION {{build_flat_list(S.heap, S.baskets[key], 0, Fuel)[i].level :
            i \in DOMAIN build_flat_list(S.heap, S.baskets[key], 0, Fuel)} :
         key \in DOMAIN S.baskets}

\* C23: no task stands deeper than MAX_NESTING_DEPTH levels below a basket.
NestingIsBounded == \A level \in Levels(Store) : level <= MAX_NESTING_DEPTH

-----------------------------------------------------------------------------
\* The fixed baskets (TodoData.__init__, from_dict, the store's operations and
\* the week rollover together).

\* Documents without Inbox and without Later: empty, a day of another week
\* only, a weekday name only, an unknown key only.
BareDocs ==
  {<<>>,
   <<Entry(OtherWeekDate, <<TaskDoc(1, FALSE, <<>>)>>)>>,
   <<Entry("Monday", <<TaskDoc(1, TRUE, <<>>)>>)>>,
   <<Entry("inbox", <<TaskDoc(1, FALSE, <<>>)>>)>>}

NextBaskets == AddTask \/ MoveTask \/ DeleteTask \/ Load \/ WeekTransition

\* From a new store; add_task and move_task put tasks in a day of another week.
SpecBaskets == Init /\ [][NextBaskets]_vars

HasFixedBaskets(S) ==
  /\ Range(FIXED_BASKETS) \subseteq DOMAIN S.baskets
  /\ Range(FIXED_BASKETS) \subseteq Range(S.keys)

\* C24: every store has the baskets Inbox and Later: the store of every
\* state, what from_dict makes of any document, and what add_task, move_task,
\* delete_task and the week rollover leave; a new store has exactly these two
\* and the seven days of the current week, all empty.
FixedBasketsAlwaysExist ==
  /\ HasFixedBaskets(Store)
  /\ \A doc \in BareDocs, migrate \in BOOLEAN :
       HasFixedBaskets(from_dict(doc, migrate))
  /\ HasFixedBaskets(check_and_perform_week_transition(Store).store)
  /\ Len(get_current_week_dates) = 7
  /\ DOMAIN TodoData.baskets = Range(FIXED_BASKETS) \cup Range(get_current_week_dates)
  /\ Cardinality(DOMAIN TodoData.baskets) = 9
  /\ \A k \in DOMAIN TodoData.baskets : TodoData.baskets[k] = <<>>

\* The rollover has just removed the basket of a day of another week.
RolloverRemovedBasket ==
  /\ last.op = "check_and_perform_week_transition"
  /\ ~last.raised
  /\ StaleKeys(Store) = {}
  /\ Cardinality(DOMAIN heap) = MaxTasks
  /\ Len(baskets["Inbox"]) >= 1

-----------------------------------------------------------------------------
\* Write-through: every handler saves what it changed.

\* TodoApp.action_unnest_task with the tree on entry idx of the basket's flat
\* list, an entry below level 0: the task leaves its parent and goes right
\* after it, among the grandparent's children or in the parent's basket.
\* Without a location for the parent the handler returns before save_data(),
\* as one that raises does.
action_unnest_task(S, basket, idx) ==
  LET flat == build_flat_list(S.heap, S.baskets[basket], 0, Fuel)
      current_task == flat[idx].task
      task_id == S.heap[current_task].id
      location == find_task_location(S, task_id)
      parent == find_task(S, location.parent)
      S1 == [S EXCEPT !.heap = remove_child(@, parent, task_id)]
      grandparent_location == find_task_location(S1, S1.heap[parent].id)
  IN IF location.kind = "raised" THEN Raises(S)
     ELSE IF location.kind = "none" THEN Returns(S, FALSE)
     ELSE IF location.parent = None \/ parent = None THEN Returns(S, FALSE)
     ELSE IF parent = Raised THEN Raises(S)
     ELSE IF grandparent_location.kind # "at" THEN Raises(S1)
     ELSE IF grandparent_location.parent # None
       THEN LET grandparent == find_task(S1, grandparent_location.parent)
            IN IF grandparent = Raised THEN Raises(S1)
               ELSE IF grandparent = None THEN Returns(S1, TRUE)
               ELSE Returns([S1 EXCEPT !.heap[grandparent].children =
                                         InsertAfter(@, parent, current_task)], TRUE)
       ELSE Returns(SetBasket(S1, grandparent_location.basket,
                              InsertAfter(S1.baskets[grandparent_location.basket],
                                          parent, current_task)), TRUE)

unnest_calls(S) ==
  UNION {{action_unnest_task(S, basket, idx) :
            idx \in {i \in DOMAIN build_flat_list(S.heap, S.baskets[basket], 0, Fuel) :
                       build_flat_list(S.heap, S.baskets[basket], 0, Fuel)[i].level > 0}} :
         basket \in PaneBaskets \cap DOMAIN S.baskets}

AppUnnest ==
  \E result \in unnest_calls(Store) : Handles("action_unnest_task", result)

NextActions ==
  \/ Len(history) < MaxUndo
     /\ (AppToggle \/ AppDelete \/ AppMove \/ AppCreate \/ AppNest \/ AppUnnest)
  \/ Undo

SpecActions == InitUndo /\ [][NextActions]_vars

-----------------------------------------------------------------------------
\* Snapshots and the live tasks.

\* What a snapshot reads as, given the heap: a dict built by Task.to_dict
\* holds values only and reads as itself; a Task object held in a snapshot
\* reads as the object is now.
ReadTask(h, node) ==
  IF "ref" \in DOMAIN node
    THEN IF node.ref \in DOMAIN h THEN task_to_dict(h, node.ref, Fuel)
         ELSE TaskDoc(Raised, FALSE, <<>>)
    ELSE node

ReadSnapshot(h, snapshot) ==
  [k \in DOMAIN snapshot |->
     [key |-> snapshot[k].key,
      tasks |-> [i \in DOMAIN snapshot[k].tasks |-> ReadTask(h, snapshot[k].tasks[i])]]]

NextSnapshots ==
  /\ Len(history) < MaxUndo
  /\ AppToggle \/ AppDelete \/ AppMove \/ AppCreate \/ AppNest \/ AppUnnest

SpecSnapshots == InitUndo /\ [][NextSnapshots]_vars

\* C26: a handler's step leaves every snapshot the history keeps reading as
\* it read before the step, and the snapshot it pushes reads as to_dict of
\* the store the handler started from.
SnapshotsAreFrozen ==
  [][LET shift == IF Len(history) + 1 > max_history THEN 1 ELSE 0
     IN /\ Len(history') = Len(history) + 1 - shift
        /\ \A i \in (1 + shift)..Len(history) :
             ReadSnapshot(heap', history'[i - shift]) = ReadSnapshot(heap, history[i])
        /\ ReadSnapshot(heap', history'[Len(history')]) = to_dict(Store)]_vars

\* Two snapshots are held, and the store has changed since each was pushed.
TwoSnapshotsBehindStore ==
  /\ Len(history) = 2
  /\ history[1] # history[2]
  /\ history[2] # to_dict(Store)
  /\ history[1] # to_dict(Store)
  /\ last.op = "action_toggle_complete"

-----------------------------------------------------------------------------
\* A parent id that resolves decides where the task goes.

\* The task with this id is the last child of the task with parent_id, and
\* find_task_location reports it there, in the basket the parent is in.
IsLastChildOf(S, task_id, parent_id) ==
  LET location == find_task_location(S, task_id)
      parent == find_task(S, parent_id)
      children == S.heap[parent].children
  IN /\ parent \notin {None, Raised}
     /\ children # <<>>
     /\ S.heap[children[Len(children)]].id = task_id
     /\ location.kind = "at"
     /\ location.parent = parent_id
     /\ find_task_location(S, parent_id).kind = "at"
     /\ location.basket = find_task_location(S, parent_id).basket

\* The ids of tasks that are in a basket, at any depth.
LocatedIds(S) == {id \in DOMAIN S.index : find_task_location(S, id).kind = "at"}

\* C27: add_task and move_task with a valid basket and the id of a parent
\* that is in some basket return True and leave the task as the last child of
\* that parent, located in the parent's basket whatever basket was passed.
ParentDecidesBasket ==
  \A basket \in {b \in BasketArgs : is_valid_basket(b)}, parent_id \in LocatedIds(Store) :
    /\ Cardinality(DOMAIN heap) + 1 <= MaxTasks =>
         LET added == AddTaskCall(Store, basket, NewTask, parent_id)
         IN /\ added.ret = TRUE
            /\ IsLastChildOf(added.store, NewTask.id, parent_id)
    /\ \A task_id \in LocatedIds(Store) :
         LET moved == move_task(Store, task_id, basket, parent_id)
         IN /\ moved.ret = TRUE
            /\ IsLastChildOf(moved.store, task_id, parent_id)

-----------------------------------------------------------------------------
\* Loading loses no task.

\* The ids of a task document and of the documents below it.
RECURSIVE TaskDocIds(_)
TaskDocIds(doc) ==
  {doc.id} \cup UNION {TaskDocIds(doc.children[i]) : i \in DOMAIN doc.children}

\* The ids a document lists under Inbox, Later, a weekday name or a
\* date-shaped key.
ListedIds(data) ==
  UNION {UNION {TaskDocIds(data[k].tasks[i]) : i \in DOMAIN data[k].tasks} :
           k \in {j \in DOMAIN data :
                    \/ is_valid_basket(data[j].key)
                    \/ data[j].key \in Range(LEGACY_DAY_BASKETS)}}

\* C28: every task a document lists under Inbox, Later, a weekday name or a
\* date-shaped key is in a basket of from_dict of the document, migration on.
LoadLosesNoTask ==
  \A doc \in LegacyDocs \cup {LegacyDoc(Store), to_dict(Store)} :
    LET loaded == from_dict(doc, TRUE)
    IN ListedIds(doc) \subseteq {loaded.heap[r].id : r \in Reachable(loaded)}

-----------------------------------------------------------------------------
\* The week transition and the tasks below the roots.

\* C29: check_and_perform_week_transition places each root of a basket of
\* another week by the root's own completed flag (completed: it stays in its
\* basket; incomplete: it goes to Inbox), whatever the flags below it; every
\* task keeps its subtree and is located in the basket of its root; the
\* tasks reachable from the baskets and their ids are the same before and
\* after, the index is untouched, and it agrees with the baskets after
\* exactly if it did before.
TransitionKeepsSubtrees ==
  LET T == check_and_perform_week_transition(Store).store
  IN /\ Reachable(T) = Reachable(Store)
     /\ ReachableIds(T) = ReachableIds(Store)
     /\ \A r \in Reachable(Store) :
          task_to_dict(T.heap, r, Fuel) = task_to_dict(heap, r, Fuel)
     /\ T.index = index
     /\ (DOMAIN T.index = ReachableIds(T)) <=> (DOMAIN index = ReachableIds(Store))
     /\ \A k \in StaleKeys(Store) : \A i \in DOMAIN baskets[k] :
          LET root == baskets[k][i]
              home == IF heap[root].completed THEN k ELSE "Inbox"
          IN /\ Cardinality({b \in DOMAIN T.baskets : root \in Range(T.baskets[b])}) = 1
             /\ root \in Range(T.baskets[home])
             /\ \A d \in {root} \cup Descendants(Store, root) :
                  /\ find_task_location(T, heap[d].id).kind = "at"
                  /\ find_task_location(T, heap[d].id).basket = home
                  /\ find_task_location(T, heap[d].id).parent
                       = find_task_location(Store, heap[d].id).parent

\* A transition has left a completed root with an incomplete child in the
\* basket of another week.
ArchivedWithOpenChild ==
  /\ last.op = "check_and_perform_week_transition"
  /\ \E k \in StaleKeys(Store) : \E i \in DOMAIN baskets[k] :
       /\ heap[baskets[k][i]].completed
       /\ \E c \in Range(heap[baskets[k][i]].children) : ~heap[c].completed

-----------------------------------------------------------------------------
\* The quick-add command next to a running session.

\* The ids of the tasks a file holds.
FileIds(f) ==
  IF f.kind = "complete"
    THEN UNION {UNION {TaskDocIds(f.data[k].tasks[i]) : i \in DOMAIN f.data[k].tasks} :
                  k \in DOMAIN f.data}
    ELSE {}

\* quick_add.main with a title: storage.load(), add_task("Inbox", Task(title)),
\* storage.save(); the files afterwards and the exit status.
quick_add(F, id) ==
  LET loaded == load(F)
      added == AddTaskCall(loaded.result.store, "Inbox", TaskDoc(id, FALSE, <<>>), None)
  IN IF loaded.result.raised THEN [files |-> loaded.files, ret |-> 1]
     ELSE [files |-> ReplaceTarget(DumpTemp(OpenTemp(loaded.files), added.store)),
           ret |-> 0]

\* The ids no task of the file, of the session's store or of its history has
\* (Task() draws a uuid4).
UnusedIds ==
  Ids \ (FileIds(file) \cup KnownIds
         \cup UNION {FileIds(Complete(history[i])) : i \in DOMAIN history})

\* The command runs, start to end, while the session waits for a key.
QuickAdd ==
  /\ pc = "idle"
  /\ UnusedIds # {}
  /\ LET id == CHOOSE id \in UnusedIds : \A other \in UnusedIds : id <= other
         ran == quick_add(Files, id)
     IN /\ file' = ran.files.file
        /\ tmp' = ran.files.tmp
        /\ backup' = ran.files.backup
        /\ last' = [op |-> "quick_add", ret |-> id, raised |-> ran.ret # 0]
  /\ UNCHANGED <<baskets, keys, heap, index, history, pc, faults, now>>

NextQuickAdd ==
  \/ Len(history) < MaxUndo /\ (AppToggle \/ AppDelete \/ AppMove)
  \/ Undo
  \/ QuickAdd

SpecQuickAdd == InitUndo /\ [][NextQuickAdd]_vars

\* C30: the task the quick-add command has just written to the file is in
\* the file after the session's next handler has saved.
QuickAddSurvivesNextSave ==
  [][(last.op = "quick_add" /\ ~last.raised /\ last'.op # "quick_add")
       => last.ret \in FileIds(file')]_vars

====
